---- MODULE Spec2Model ----
(***************************************************************************)
(* Model of the multiprocessing demonstrations.                            *)
(*                                                                         *)
(* Spec        the shared-queue run of UseProcess                          *)
(*             (MultiprocessingDemonstrationBenchmarking.py, lines 90-107) *)
(*             with UsingQueues (lines 53-61) as the target of each        *)
(*             worker.                                                     *)
(* SpecFault   the same run with calls that can raise.                     *)
(* SpecPool    the direct-submit run of UsePool (lines 75-87).             *)
(* SpecNested  the run of lines 83-98 of                                   *)
(*             MultiprocessingDemonstrationNestingProcessAndPool.py, each  *)
(*             process running JobToPerformTasks (lines 41-59).            *)
(* SpecReduce  one evaluation of the reduction of line 55 of that file.    *)
(* SpecDict    the run of MultiprocessingDemonstrationManagerDictOfDicts   *)
(*             (lines 36-54) with Worker (lines 19-34).                    *)
(* SpecCase4   case 4 of MultiprocessingDemonstrationProcess.py (lines     *)
(*             89-103), each job running JobToSumRandomNumbersRepeatedly   *)
(*             (lines 30-38).                                              *)
(* SpecSerial  the run of Serial                                           *)
(*             (MultiprocessingDemonstrationBenchmarking.py, lines 64-72). *)
(*                                                                         *)
(* A multiprocessing.Queue is modelled by what it does: put() appends the  *)
(* object to a buffer private to the calling process, a feeder thread of   *)
(* that process moves the buffer into the one pipe of the queue, and       *)
(* get(block=False) raises Empty when the reader lock is held by another   *)
(* process or when the pipe holds nothing at the moment of the call (the   *)
(* library documents the delay between put() and the moment get_nowait()   *)
(* can return without raising Empty).  A process that has put objects      *)
(* exits only after its feeder thread has sent them.                       *)
(*                                                                         *)
(* The variables pushed, popCount, putOrder, arrived, calls, submitted,    *)
(* finished and innerCalls are history variables: they record what         *)
(* happened and are read by no action.                                     *)
(***************************************************************************)
EXTENDS Integers, Sequences, FiniteSets, TLC

\* Bounds of the model.
MaxTasks == 2
MaxWorkers == 2
MaxWeight == 1
MaxOuterTasks == 2
MaxSubtasks == 2
MaxSum == 3
MaxKeys == 2

\* The main process, and the value of a lock nobody holds.
Main == 0
NoProc == -1

VARIABLES
    NumberOfWorkers,      \* argument of UseProcess
    NumberOfTasks,        \* argument of UseProcess
    WeightOfComputation,  \* argument of UseProcess
    InputQueue,           \* multiprocessing.Queue(), line 94
    OutputQueue,          \* multiprocessing.Queue(), line 97
    MyProcesses,          \* per worker: position in UsingQueues and its locals
    mainpc,               \* position of the main process in UseProcess
    i,                    \* loop index of the main process
    Output,               \* the list built on line 101
    pushed,               \* history: items in the order of InputQueue.put calls
    popCount,             \* history: successful InputQueue.get per task id
    putOrder,             \* history: results in the order of OutputQueue.put calls
    arrived,              \* history: results in the order they reached the pipe
    calls,                \* history: calls of CPUHeavyFunction per task id
    MyPool,               \* multiprocessing.Pool(processes=NumberOfWorkers) of UsePool
    Results,              \* the AsyncResult handles of UsePool, in submission order
    submitted,            \* history: argument lists in the order of apply_async calls
    finished,             \* history: handle indices in the order the tasks finished
    NumberOfSubtasksInOneTask,  \* nested run: inner tasks per outer item
    ListOfProcesses,      \* nested run, per process: position in JobToPerformTasks and its locals
    innerCalls,           \* nested run, history: number of finished calls of SumRandomNumbers
    ResultArrayOrdered,   \* nested run: the array of line 95
    Jobs,                 \* Process.py, case 4, per job: position in JobToSumRandomNumbersRepeatedly and its locals
    reduceArgs,           \* the arguments of one evaluation of line 55 of the nested run
    reduceSum,            \* the value of that evaluation
    MyManagersDict,       \* shared-dictionary run: MyManager.dict(MyDict), line 50
    WorkerCalls           \* shared-dictionary run, per key: position in Worker and its locals

params == <<NumberOfWorkers, NumberOfTasks, WeightOfComputation>>

\* State of the shared-queue run only, and of the direct-submit run only.
queueVars == <<InputQueue, OutputQueue, MyProcesses, pushed, popCount, putOrder, arrived>>
poolVars == <<MyPool, Results, submitted, finished>>


\* State of the nested run only, of one evaluation of its reduction, of the
\* shared-dictionary run only, and of case 4 of
\* MultiprocessingDemonstrationProcess.py only.
nestedVars == <<NumberOfSubtasksInOneTask, ListOfProcesses, innerCalls, ResultArrayOrdered>>
reduceVars == <<reduceArgs, reduceSum>>
dictVars == <<MyManagersDict, WorkerCalls>>
jobsVars == <<Jobs>>
elseVars == <<nestedVars, reduceVars, dictVars, jobsVars>>

vars == <<params, mainpc, i, Output, calls, queueVars, poolVars, elseVars>>

Workers == 1..NumberOfWorkers
Procs == {Main} \cup Workers
TaskIDs == 0..(NumberOfTasks - 1)

\* The variables of the nested run, of the evaluation of its reduction, of
\* the shared-dictionary run and of case 4, in the state in which the other
\* runs leave them.
NestedUnused ==
    /\ NumberOfSubtasksInOneTask = 0
    /\ ListOfProcesses = <<>>
    /\ innerCalls = 0
    /\ ResultArrayOrdered = <<>>

ReduceUnused ==
    /\ reduceArgs = <<>>
    /\ reduceSum = <<>>

DictUnused ==
    /\ MyManagersDict = <<>>
    /\ WorkerCalls = <<>>

JobsUnused == Jobs = <<>>

(***************************************************************************)
(* multiprocessing.Queue                                                   *)
(***************************************************************************)

\* multiprocessing.Queue(): empty buffers, empty pipe, free reader lock.
NewQueue == [buffer |-> [p \in Procs |-> <<>>], pipe |-> <<>>, rlock |-> NoProc]

\* q.put(item) called by process p: the object goes to p's buffer.
QueuePut(q, p, item) == [q EXCEPT !.buffer[p] = Append(@, item)]

\* The feeder thread of process p can send the oldest buffered object.
CanFeed(q, p) == q.buffer[p] # <<>>

\* Mutant: the object sent overtakes what is already in the pipe.
QueueFeedFront(q, p) ==
    [q EXCEPT !.buffer[p] = Tail(@), !.pipe = <<Head(q.buffer[p])>> \o @]

\* The feeder thread of process p sends the oldest buffered object.
QueueFeed(q, p) ==
    [q EXCEPT !.buffer[p] = Tail(@), !.pipe = Append(@, Head(q.buffer[p]))]

\* get(block=False): the reader lock is taken only if it is free right now.
CanAcquire(q) == q.rlock = NoProc

QueueAcquire(q, p) == [q EXCEPT !.rlock = p]

\* get(block=False) with the lock held: something is in the pipe right now.
Poll(q) == q.pipe # <<>>

\* The object received from the pipe.
Received(q) == Head(q.pipe)

\* Mutant: the received object stays in the pipe.
QueueRecvKeep(q) == [q EXCEPT !.rlock = NoProc]

\* The queue after the receive and the release of the reader lock.
QueueRecv(q) == [q EXCEPT !.pipe = Tail(@), !.rlock = NoProc]

\* The queue after get(block=False) found the pipe empty and released the lock.
QueueRelease(q) == [q EXCEPT !.rlock = NoProc]

\* q.get() (blocking) can return: lock free and an object in the pipe.
CanGet(q) == CanAcquire(q) /\ Poll(q)

(***************************************************************************)
(* CPUHeavyFunction: NumbersInside of the NumbersToDraw random points fall *)
(* inside the quarter circle; Pi = 4*NumbersInside/NumbersToDraw is kept   *)
(* as the pair <<numerator, denominator>>.  NumbersToDraw is at least 1.   *)
(***************************************************************************)
\* Mutant: the two arguments are taken in the wrong order.
CPUHeavyFunctionSwapped(NumbersToDraw, ID, NumbersInside) ==
    <<NumbersToDraw, <<4 * NumbersInside, ID>>>>

CPUHeavyFunction(NumbersToDraw, ID, NumbersInside) ==
    <<ID, <<4 * NumbersInside, NumbersToDraw>>>>

\* No pool exists in the shared-queue run.
NoPool == [taskqueue |-> <<>>, worker |-> <<>>, closed |-> FALSE]

(***************************************************************************)
(* UseProcess, the main process                                            *)
(***************************************************************************)
Created == [pc |-> "created", TupleOfArguments |-> <<>>]

Init ==
    /\ NumberOfWorkers \in 1..MaxWorkers
    /\ NumberOfTasks \in 0..MaxTasks
    /\ WeightOfComputation \in 1..MaxWeight
    /\ InputQueue = NewQueue
    /\ OutputQueue = NewQueue
    /\ MyProcesses = [w \in Workers |-> Created]
    /\ mainpc = "fill"
    /\ i = 0
    /\ Output = <<>>
    /\ pushed = <<>>
    /\ popCount = [t \in TaskIDs |-> 0]
    /\ putOrder = <<>>
    /\ arrived = <<>>
    /\ calls = [t \in TaskIDs |-> 0]
    /\ MyPool = NoPool
    /\ Results = <<>>
    /\ submitted = <<>>
    /\ finished = <<>>
    /\ NestedUnused
    /\ ReduceUnused
    /\ DictUnused
    /\ JobsUnused

\* lines 95-96: InputQueue.put((WeightOfComputation,i))
MainPut ==
    /\ mainpc = "fill"
    /\ i < NumberOfTasks
    /\ InputQueue' = QueuePut(InputQueue, Main, <<WeightOfComputation, i>>)
    /\ pushed' = Append(pushed, <<WeightOfComputation, i>>)
    /\ i' = i + 1
    /\ UNCHANGED <<params, OutputQueue,
                   MyProcesses, mainpc, Output, popCount, putOrder, arrived, calls, poolVars, elseVars>>

\* lines 97-98: the output queue and the Process objects are created.
MainCreate ==
    /\ mainpc = "fill"
    /\ i = NumberOfTasks
    /\ mainpc' = "start"
    /\ i' = 1
    /\ UNCHANGED <<params, InputQueue,
                   OutputQueue, MyProcesses, Output, popCount, putOrder, arrived, pushed, calls, poolVars, elseVars>>

\* Mutant: every start starts the first process as well.
MainStartFirstAgain ==
    /\ mainpc = "start"
    /\ MyProcesses' = [MyProcesses EXCEPT ![i].pc = "get", ![1].pc = "get"]
    /\ IF i < NumberOfWorkers
         THEN i' = i + 1 /\ mainpc' = mainpc
         ELSE i' = 0 /\ mainpc' = "drain"
    /\ UNCHANGED <<params, InputQueue,
                   OutputQueue, Output, popCount, putOrder, arrived, pushed, calls, poolVars, elseVars>>

\* lines 99-100: p.start() for the i-th process
MainStart ==
    /\ mainpc = "start"
    /\ MyProcesses' = [MyProcesses EXCEPT ![i].pc = "get"]
    /\ IF i < NumberOfWorkers
         THEN i' = i + 1 /\ mainpc' = mainpc
         ELSE i' = 0 /\ mainpc' = "drain"
    /\ UNCHANGED <<params, InputQueue,
                   OutputQueue, Output, popCount, putOrder, arrived, pushed, calls, poolVars, elseVars>>

\* Mutant: the drain gives up when no worker is left and nothing has arrived.
DrainWantsWhileAlive ==
    /\ Len(Output) < NumberOfTasks
    /\ ~(Poll(OutputQueue) = FALSE /\ \A w \in Workers : MyProcesses[w].pc = "exited")

\* Mutant: the drain asks for one result at least.
DrainWantsOneAtLeast == Len(Output) < NumberOfTasks \/ Len(Output) = 0

\* The main process may take one more result: the list of line 101 is not full.
DrainWants == Len(Output) < NumberOfTasks

\* line 101: one OutputQueue.get() of the list comprehension
MainGet ==
    /\ mainpc = "drain"
    /\ DrainWants
    /\ CanGet(OutputQueue)
    /\ Output' = Append(Output, Received(OutputQueue))
    /\ OutputQueue' = QueueRecv(OutputQueue)
    /\ UNCHANGED <<params, InputQueue,
                   MyProcesses, mainpc, i, popCount, putOrder, arrived, pushed, calls, poolVars, elseVars>>

\* line 101 -> 103: the list has NumberOfTasks elements
MainDrained ==
    /\ mainpc = "drain"
    /\ ~DrainWants
    /\ mainpc' = "join"
    /\ i' = 1
    /\ UNCHANGED <<params, InputQueue,
                   OutputQueue, MyProcesses, Output, popCount, putOrder, arrived, pushed, calls, poolVars, elseVars>>

\* Mutant: p.join() returns although the process is still running.
JoinReturnsAtOnce(w) == MyProcesses[w].pc # "created"

\* p.join() returns: process w has ended, by returning or with an exception.
JoinReturns(w) == MyProcesses[w].pc \in {"exited", "crashed"}

\* lines 103-104: p.join() for the i-th process
MainJoin ==
    /\ mainpc = "join"
    /\ JoinReturns(i)
    /\ IF i < NumberOfWorkers
         THEN i' = i + 1 /\ mainpc' = mainpc
         ELSE i' = 0 /\ mainpc' = "done"
    /\ UNCHANGED <<params, InputQueue,
                   OutputQueue, MyProcesses, Output, popCount, putOrder, arrived, pushed, calls, poolVars, elseVars>>

\* The feeder thread of the main process sends one item of InputQueue.
InputFeeder ==
    /\ CanFeed(InputQueue, Main)
    /\ InputQueue' = QueueFeed(InputQueue, Main)
    /\ UNCHANGED <<params, OutputQueue,
                   MyProcesses, mainpc, i, Output, popCount, putOrder, arrived, pushed, calls, poolVars, elseVars>>

(***************************************************************************)
(* UsingQueues, run by worker w                                            *)
(***************************************************************************)

\* line 57, first half of InputQueue.get(block=False): take the reader lock,
\* or raise Empty at once when another process holds it.
WorkerAcquire(w) ==
    /\ MyProcesses[w].pc = "get"
    /\ IF CanAcquire(InputQueue)
         THEN /\ InputQueue' = QueueAcquire(InputQueue, w)
              /\ MyProcesses' = [MyProcesses EXCEPT ![w].pc = "poll"]
         ELSE /\ InputQueue' = InputQueue
              /\ MyProcesses' = [MyProcesses EXCEPT ![w].pc = "break"]
    /\ UNCHANGED <<params, OutputQueue,
                   mainpc, i, Output, popCount, putOrder, arrived, pushed, calls, poolVars, elseVars>>

\* line 57, second half: receive an item, or raise Empty when the pipe holds
\* nothing; the reader lock is released either way.
WorkerPoll(w) ==
    /\ MyProcesses[w].pc = "poll"
    /\ IF Poll(InputQueue)
         THEN /\ InputQueue' = QueueRecv(InputQueue)
              /\ MyProcesses' = [MyProcesses EXCEPT
                     ![w] = [pc |-> "call", TupleOfArguments |-> Received(InputQueue)]]
              /\ popCount' = [popCount EXCEPT ![Received(InputQueue)[2]] = @ + 1]
         ELSE /\ InputQueue' = QueueRelease(InputQueue)
              /\ MyProcesses' = [MyProcesses EXCEPT ![w].pc = "break"]
              /\ popCount' = popCount
    /\ UNCHANGED <<params, OutputQueue,
                   mainpc, i, Output, putOrder, arrived, pushed, calls, poolVars, elseVars>>

\* Mutant: the break is taken after the first put.
WorkerCallOnce(w) ==
    /\ MyProcesses[w].pc = "call"
    /\ \E NumbersInside \in 0..MyProcesses[w].TupleOfArguments[1] :
         LET ReturnedTuple == CPUHeavyFunction(MyProcesses[w].TupleOfArguments[1],
                                               MyProcesses[w].TupleOfArguments[2],
                                               NumbersInside)
         IN /\ OutputQueue' = QueuePut(OutputQueue, w, ReturnedTuple)
            /\ putOrder' = Append(putOrder, ReturnedTuple)
    /\ MyProcesses' = [MyProcesses EXCEPT ![w] = [pc |-> "break", TupleOfArguments |-> <<>>]]
    /\ calls' = [calls EXCEPT ![MyProcesses[w].TupleOfArguments[2]] = @ + 1]
    /\ UNCHANGED <<params, InputQueue,
                   mainpc, i, Output, popCount, arrived, pushed, poolVars, elseVars>>

\* Mutant: the worker pops again before it has put the result.
WorkerCallPutLater(w) ==
    /\ MyProcesses[w].pc = "call"
    /\ MyProcesses' = [MyProcesses EXCEPT ![w] = [pc |-> "get", TupleOfArguments |-> <<>>]]
    /\ calls' = [calls EXCEPT ![MyProcesses[w].TupleOfArguments[2]] = @ + 1]
    /\ UNCHANGED <<params, InputQueue, OutputQueue,
                   mainpc, i, Output, popCount, putOrder, arrived, pushed, poolVars, elseVars>>

\* lines 58-59: evaluate the function on the popped tuple and put the result.
WorkerCall(w) ==
    /\ MyProcesses[w].pc = "call"
    /\ \E NumbersInside \in 0..MyProcesses[w].TupleOfArguments[1] :
         LET ReturnedTuple == CPUHeavyFunction(MyProcesses[w].TupleOfArguments[1],
                                               MyProcesses[w].TupleOfArguments[2],
                                               NumbersInside)
         IN /\ OutputQueue' = QueuePut(OutputQueue, w, ReturnedTuple)
            /\ putOrder' = Append(putOrder, ReturnedTuple)
    /\ MyProcesses' = [MyProcesses EXCEPT ![w] = [pc |-> "get", TupleOfArguments |-> <<>>]]
    /\ calls' = [calls EXCEPT ![MyProcesses[w].TupleOfArguments[2]] = @ + 1]
    /\ UNCHANGED <<params, InputQueue,
                   mainpc, i, Output, popCount, arrived, pushed, poolVars, elseVars>>

\* lines 60-61: Empty was caught, UsingQueues returns; the process exits once
\* its feeder thread has sent everything the process has put.
WorkerExit(w) ==
    /\ MyProcesses[w].pc = "break"
    /\ ~CanFeed(OutputQueue, w)
    /\ MyProcesses' = [MyProcesses EXCEPT ![w].pc = "exited"]
    /\ UNCHANGED <<params, InputQueue,
                   OutputQueue, mainpc, i, Output, popCount, putOrder, arrived, pushed, calls, poolVars, elseVars>>

\* Mutant: a result is sent only when it is the next in the order of the ids.
OutputFeederInOrder(w) ==
    /\ CanFeed(OutputQueue, w)
    /\ Head(OutputQueue.buffer[w])[1] = Len(arrived)
    /\ OutputQueue' = QueueFeed(OutputQueue, w)
    /\ arrived' = Append(arrived, Head(OutputQueue.buffer[w]))
    /\ UNCHANGED <<params, InputQueue,
                   MyProcesses, mainpc, i, Output, popCount, putOrder, pushed, calls, poolVars, elseVars>>

\* The feeder thread of worker w sends one result of OutputQueue.
OutputFeeder(w) ==
    /\ CanFeed(OutputQueue, w)
    /\ OutputQueue' = QueueFeed(OutputQueue, w)
    /\ arrived' = Append(arrived, Head(OutputQueue.buffer[w]))
    /\ UNCHANGED <<params, InputQueue,
                   MyProcesses, mainpc, i, Output, popCount, putOrder, pushed, calls, poolVars, elseVars>>

Next ==
    \/ MainPut
    \/ MainCreate
    \/ MainStart
    \/ MainGet
    \/ MainDrained
    \/ MainJoin
    \/ InputFeeder
    \/ \E w \in Workers : WorkerAcquire(w)
    \/ \E w \in Workers : WorkerPoll(w)
    \/ \E w \in Workers : WorkerCall(w)
    \/ \E w \in Workers : WorkerExit(w)
    \/ \E w \in Workers : OutputFeeder(w)

Spec == Init /\ [][Next]_vars

(***************************************************************************)
(* UsePool (lines 75-87): the direct-submit run.  The pool hands the       *)
(* submitted tasks to its workers in the order of submission; a worker     *)
(* that has finished a task stores the returned value in the AsyncResult   *)
(* of that task.                                                           *)
(***************************************************************************)
Idle == [state |-> "idle", job |-> 0, args |-> <<>>]
Pending == [ready |-> FALSE, value |-> <<>>]

\* line 79: multiprocessing.Pool(processes=NumberOfWorkers)
NewPool == [taskqueue |-> <<>>, worker |-> [w \in Workers |-> Idle], closed |-> FALSE]

InitPool ==
    /\ NumberOfWorkers \in 1..MaxWorkers
    /\ NumberOfTasks \in 0..MaxTasks
    /\ WeightOfComputation \in 1..MaxWeight
    /\ InputQueue = NewQueue
    /\ OutputQueue = NewQueue
    /\ MyProcesses = [w \in Workers |-> Created]
    /\ mainpc = "apply"
    /\ i = 0
    /\ Output = <<>>
    /\ pushed = <<>>
    /\ popCount = [t \in TaskIDs |-> 0]
    /\ putOrder = <<>>
    /\ arrived = <<>>
    /\ calls = [t \in TaskIDs |-> 0]
    /\ MyPool = NewPool
    /\ Results = <<>>
    /\ submitted = <<>>
    /\ finished = <<>>
    /\ NestedUnused
    /\ ReduceUnused
    /\ DictUnused
    /\ JobsUnused

\* line 80: MyPool.apply_async(CPUHeavyFunction, args=[WeightOfComputation, i])
PoolApplyAsync ==
    /\ mainpc = "apply"
    /\ i < NumberOfTasks
    /\ MyPool' = [MyPool EXCEPT !.taskqueue =
                      Append(@, [job |-> Len(Results) + 1, args |-> <<WeightOfComputation, i>>])]
    /\ Results' = Append(Results, Pending)
    /\ submitted' = Append(submitted, <<WeightOfComputation, i>>)
    /\ i' = i + 1
    /\ UNCHANGED <<params, mainpc, Output, calls, finished, queueVars, elseVars>>

\* line 80 -> 81: every task has been submitted
PoolApplied ==
    /\ mainpc = "apply"
    /\ i = NumberOfTasks
    /\ mainpc' = "collect"
    /\ i' = 0
    /\ UNCHANGED <<params, Output, calls, poolVars, queueVars, elseVars>>

\* The handle whose get() the list comprehension of line 81 calls next.
HandleToGet == Len(Output) + 1

\* Mutant: the results are taken in the order in which the tasks finished.
PoolGetAsFinished ==
    /\ mainpc = "collect"
    /\ Len(Output) < Len(finished)
    /\ Output' = Append(Output, Results[finished[Len(Output) + 1]].value)
    /\ UNCHANGED <<params, mainpc, i, calls, poolVars, queueVars, elseVars>>

\* line 81: r.get() returns the value of the next handle once it is ready
PoolGet ==
    /\ mainpc = "collect"
    /\ HandleToGet <= Len(Results)
    /\ Results[HandleToGet].ready
    /\ Output' = Append(Output, Results[HandleToGet].value)
    /\ UNCHANGED <<params, mainpc, i, calls, poolVars, queueVars, elseVars>>

\* line 81 -> 82: every handle has been asked
PoolCollected ==
    /\ mainpc = "collect"
    /\ HandleToGet > Len(Results)
    /\ mainpc' = "close"
    /\ UNCHANGED <<params, i, Output, calls, poolVars, queueVars, elseVars>>

\* line 82: MyPool.close()
PoolClose ==
    /\ mainpc = "close"
    /\ MyPool' = [MyPool EXCEPT !.closed = TRUE]
    /\ mainpc' = "pooljoin"
    /\ UNCHANGED <<params, i, Output, calls, Results, submitted, finished, queueVars, elseVars>>

\* line 83: MyPool.join() returns when every worker of the pool has exited
PoolJoin ==
    /\ mainpc = "pooljoin"
    /\ \A w \in Workers : MyPool.worker[w].state = "exited"
    /\ mainpc' = "done"
    /\ UNCHANGED <<params, i, Output, calls, poolVars, queueVars, elseVars>>

\* Mutant: the task stays in the pool when a worker takes it.
PoolWorkerTakeKeep(w) ==
    /\ MyPool.worker[w].state = "idle"
    /\ MyPool.taskqueue # <<>>
    /\ MyPool' = [MyPool EXCEPT
           !.worker[w] = [state |-> "busy", job |-> Head(MyPool.taskqueue).job,
                          args |-> Head(MyPool.taskqueue).args]]
    /\ UNCHANGED <<params, mainpc, i, Output, calls, Results, submitted, finished, queueVars, elseVars>>

\* A free worker of the pool takes the oldest submitted task.
PoolWorkerTake(w) ==
    /\ MyPool.worker[w].state = "idle"
    /\ MyPool.taskqueue # <<>>
    /\ MyPool' = [MyPool EXCEPT
           !.taskqueue = Tail(@),
           !.worker[w] = [state |-> "busy", job |-> Head(MyPool.taskqueue).job,
                          args |-> Head(MyPool.taskqueue).args]]
    /\ UNCHANGED <<params, mainpc, i, Output, calls, Results, submitted, finished, queueVars, elseVars>>

\* The worker finishes CPUHeavyFunction(*args); the value is stored in the
\* AsyncResult of the task.
PoolWorkerRun(w) ==
    /\ MyPool.worker[w].state = "busy"
    /\ \E NumbersInside \in 0..MyPool.worker[w].args[1] :
         Results' = [Results EXCEPT ![MyPool.worker[w].job] =
                        [ready |-> TRUE,
                         value |-> CPUHeavyFunction(MyPool.worker[w].args[1],
                                                    MyPool.worker[w].args[2],
                                                    NumbersInside)]]
    /\ MyPool' = [MyPool EXCEPT !.worker[w] = Idle]
    /\ finished' = Append(finished, MyPool.worker[w].job)
    /\ calls' = [calls EXCEPT ![MyPool.worker[w].args[2]] = @ + 1]
    /\ UNCHANGED <<params, mainpc, i, Output, submitted, queueVars, elseVars>>

\* After close() a worker with nothing left to do exits.
PoolWorkerExit(w) ==
    /\ MyPool.closed
    /\ MyPool.worker[w].state = "idle"
    /\ MyPool.taskqueue = <<>>
    /\ MyPool' = [MyPool EXCEPT !.worker[w].state = "exited"]
    /\ UNCHANGED <<params, mainpc, i, Output, calls, Results, submitted, finished, queueVars, elseVars>>

NextPool ==
    \/ PoolApplyAsync
    \/ PoolApplied
    \/ PoolGet
    \/ PoolCollected
    \/ PoolClose
    \/ PoolJoin
    \/ \E w \in Workers : PoolWorkerTake(w)
    \/ \E w \in Workers : PoolWorkerRun(w)
    \/ \E w \in Workers : PoolWorkerExit(w)

SpecPool == InitPool /\ [][NextPool]_vars

(***************************************************************************)
(* MultiprocessingDemonstrationNestingProcessAndPool.py, the run of lines  *)
(* 83-98: NumberOfWorkers holds NumberOfProcessWorkers, NumberOfTasks the   *)
(* length of ListOfNumbersToAdd (line 86), InputQueue and OutputQueue are  *)
(* QueueWithInputValues and QueueWithResults, Output is the list Results   *)
(* of line 91.  Each process runs JobToPerformTasks (lines 41-59).  The    *)
(* workers of an inner pool are told apart only by their number.           *)
(***************************************************************************)

\* line 24
NumberOfProcessWorkers == 2

\* line 25
NumberOfPoolWorkers == 2

\* line 18: the input values, told apart by their rank in the list.
ListOfNumbersToAdd == [k \in 1..NumberOfTasks |-> k]

\* line 46: RandomWeight = random.randint(1,3)
MinRandomWeight == 1
MaxRandomWeight == 3

\* lines 31-39: the sum of WeightedNumbersToAdd random numbers of [0,1) lies
\* between 0 and WeightedNumbersToAdd, and no step of the run depends on it;
\* the value in the middle stands for the outcomes.
SumRandomNumbers(WeightedNumbersToAdd) == {WeightedNumbersToAdd \div 2}

RECURSIVE SeqSum(_)
\* np.sum
SeqSum(seq) == IF seq = <<>> THEN 0 ELSE Head(seq) + SeqSum(Tail(seq))

\* Mutant: the arithmetic mean of the inner results.
ReductionMean(ListOfSums, Subtasks, RandomWeight) ==
    SeqSum(ListOfSums) \div Subtasks

\* line 55: int(np.sum(ListOfSums)/(0.5*NumberOfSubtasksInOneTask*RandomWeight));
\* the sums are not negative, so that int() rounds down.
Reduction(ListOfSums, Subtasks, RandomWeight) ==
    (2 * SeqSum(ListOfSums)) \div (Subtasks * RandomWeight)

\* The order of two records of the structured array of line 94 under
\* order='Input-number': by the input number, and by the remaining field
\* where the input numbers are equal.
RecordLess(a, b) == a[1] < b[1] \/ (a[1] = b[1] /\ a[2] < b[2])

RECURSIVE InsertRecord(_, _)
\* The ordered array with one more record.
InsertRecord(Array, Record) ==
    IF Array = <<>> THEN <<Record>>
    ELSE IF RecordLess(Record, Head(Array)) THEN <<Record>> \o Array
    ELSE <<Head(Array)>> \o InsertRecord(Tail(Array), Record)

RECURSIVE SortByInputNumber(_)
\* Mutant: the array is left in the order of the drain.
LeftUnordered(Array) == Array

\* line 95: np.sort(ResultArrayUnordered, order='Input-number')
SortByInputNumber(Array) ==
    IF Array = <<>> THEN <<>>
    ELSE InsertRecord(SortByInputNumber(SubSeq(Array, 1, Len(Array) - 1)), Array[Len(Array)])

NoInnerPool == [live |-> 0, closed |-> FALSE]

\* Mutant: the pool starts one more process for every inner task.
NewInnerPoolPerSubtask ==
    [live |-> NumberOfPoolWorkers + NumberOfSubtasksInOneTask, closed |-> FALSE]

\* line 50: multiprocessing.Pool(processes=NumberOfPoolWorkers)
NewInnerPool == [live |-> NumberOfPoolWorkers, closed |-> FALSE]

NotStarted == [pc |-> "created", NumbersToAdd |-> 0, RandomWeight |-> 0,
               MyPool |-> NoInnerPool, Result |-> <<>>, ListOfSums |-> <<>>]

InitNested ==
    /\ NumberOfWorkers = NumberOfProcessWorkers
    /\ NumberOfTasks \in 0..MaxOuterTasks
    /\ WeightOfComputation = 0
    /\ NumberOfSubtasksInOneTask \in 1..MaxSubtasks
    /\ InputQueue = NewQueue
    /\ OutputQueue = NewQueue
    /\ MyProcesses = <<>>
    /\ ListOfProcesses = [w \in Workers |-> NotStarted]
    /\ innerCalls = 0
    /\ ResultArrayOrdered = <<>>
    /\ mainpc = "fill"
    /\ i = 0
    /\ Output = <<>>
    /\ pushed = <<>>
    /\ popCount = [t \in TaskIDs |-> 0]
    /\ putOrder = <<>>
    /\ arrived = <<>>
    /\ calls = [t \in TaskIDs |-> 0]
    /\ MyPool = NoPool
    /\ Results = <<>>
    /\ submitted = <<>>
    /\ finished = <<>>
    /\ ReduceUnused
    /\ DictUnused
    /\ JobsUnused

\* What no step of the nested run changes.
notNested == <<params, NumberOfSubtasksInOneTask, MyProcesses, calls, poolVars, reduceVars, dictVars, jobsVars>>

\* lines 84-85: QueueWithInputValues.put(i) for the next i of ListOfNumbersToAdd
NestedMainPut ==
    /\ mainpc = "fill"
    /\ i < NumberOfTasks
    /\ InputQueue' = QueuePut(InputQueue, Main, ListOfNumbersToAdd[i + 1])
    /\ pushed' = Append(pushed, ListOfNumbersToAdd[i + 1])
    /\ i' = i + 1
    /\ UNCHANGED <<notNested, ResultArrayOrdered, OutputQueue, ListOfProcesses, innerCalls, mainpc, Output,
                   popCount, putOrder, arrived>>

\* lines 86-88: the number of tasks is read, the result queue and the Process
\* objects are created.
NestedMainCreate ==
    /\ mainpc = "fill"
    /\ i = NumberOfTasks
    /\ mainpc' = "start"
    /\ i' = 1
    /\ UNCHANGED <<notNested, ResultArrayOrdered, InputQueue, OutputQueue, ListOfProcesses, innerCalls, Output,
                   pushed, popCount, putOrder, arrived>>

\* lines 89-90: p.start() for the i-th process
NestedMainStart ==
    /\ mainpc = "start"
    /\ ListOfProcesses' = [ListOfProcesses EXCEPT ![i].pc = "get"]
    /\ IF i < NumberOfWorkers
         THEN i' = i + 1 /\ mainpc' = mainpc
         ELSE i' = 0 /\ mainpc' = "drain"
    /\ UNCHANGED <<notNested, ResultArrayOrdered, InputQueue, OutputQueue, innerCalls, Output,
                   pushed, popCount, putOrder, arrived>>

\* line 91: one QueueWithResults.get() of the list comprehension
NestedMainGet ==
    /\ mainpc = "drain"
    /\ DrainWants
    /\ CanGet(OutputQueue)
    /\ Output' = Append(Output, Received(OutputQueue))
    /\ OutputQueue' = QueueRecv(OutputQueue)
    /\ UNCHANGED <<notNested, ResultArrayOrdered, InputQueue, ListOfProcesses, innerCalls, mainpc, i,
                   pushed, popCount, putOrder, arrived>>

\* line 91 -> 97: the list has NumberOfTasks elements; lines 93-95 make the
\* ordered array of it.
NestedMainDrained ==
    /\ mainpc = "drain"
    /\ ~DrainWants
    /\ ResultArrayOrdered' = SortByInputNumber(Output)
    /\ mainpc' = "join"
    /\ i' = 1
    /\ UNCHANGED <<notNested, InputQueue, OutputQueue, ListOfProcesses, innerCalls, Output,
                   pushed, popCount, putOrder, arrived>>

\* lines 97-98: p.join() for the i-th process
NestedMainJoin ==
    /\ mainpc = "join"
    /\ ListOfProcesses[i].pc = "exited"
    /\ IF i < NumberOfWorkers
         THEN i' = i + 1 /\ mainpc' = mainpc
         ELSE i' = 0 /\ mainpc' = "done"
    /\ UNCHANGED <<notNested, ResultArrayOrdered, InputQueue, OutputQueue, ListOfProcesses, innerCalls, Output,
                   pushed, popCount, putOrder, arrived>>

\* The feeder thread of the main process sends one item of the input queue.
NestedInputFeeder ==
    /\ CanFeed(InputQueue, Main)
    /\ InputQueue' = QueueFeed(InputQueue, Main)
    /\ UNCHANGED <<notNested, ResultArrayOrdered, OutputQueue, ListOfProcesses, innerCalls, mainpc, i, Output,
                   pushed, popCount, putOrder, arrived>>

\* line 45, first half of InputQueue.get(block=False): take the reader lock,
\* or raise Empty at once when another process holds it.
JobAcquire(w) ==
    /\ ListOfProcesses[w].pc = "get"
    /\ IF CanAcquire(InputQueue)
         THEN /\ InputQueue' = QueueAcquire(InputQueue, w)
              /\ ListOfProcesses' = [ListOfProcesses EXCEPT ![w].pc = "poll"]
         ELSE /\ InputQueue' = InputQueue
              /\ ListOfProcesses' = [ListOfProcesses EXCEPT ![w].pc = "break"]
    /\ UNCHANGED <<notNested, ResultArrayOrdered, OutputQueue, innerCalls, mainpc, i, Output,
                   pushed, popCount, putOrder, arrived>>

\* line 45, second half: receive an item, or raise Empty when the pipe holds
\* nothing; the reader lock is released either way.
JobPoll(w) ==
    /\ ListOfProcesses[w].pc = "poll"
    /\ IF Poll(InputQueue)
         THEN /\ InputQueue' = QueueRecv(InputQueue)
              /\ ListOfProcesses' = [ListOfProcesses EXCEPT
                     ![w].pc = "pool", ![w].NumbersToAdd = Received(InputQueue)]
              /\ popCount' = [popCount EXCEPT ![Received(InputQueue) - 1] = @ + 1]
         ELSE /\ InputQueue' = QueueRelease(InputQueue)
              /\ ListOfProcesses' = [ListOfProcesses EXCEPT ![w].pc = "break"]
              /\ popCount' = popCount
    /\ UNCHANGED <<notNested, ResultArrayOrdered, OutputQueue, innerCalls, mainpc, i, Output,
                   pushed, putOrder, arrived>>

\* Mutant: the weight drawn is the weight of every worker.
JobNewPoolSharedWeight(w) ==
    /\ ListOfProcesses[w].pc = "pool"
    /\ \E Weight \in MinRandomWeight..MaxRandomWeight :
         ListOfProcesses' = [v \in Workers |->
             IF v = w
               THEN [ListOfProcesses[v] EXCEPT
                        !.pc = "apply", !.RandomWeight = Weight, !.MyPool = NewInnerPool]
               ELSE [ListOfProcesses[v] EXCEPT !.RandomWeight = Weight]]
    /\ UNCHANGED <<notNested, ResultArrayOrdered, InputQueue, OutputQueue, innerCalls, mainpc, i, Output,
                   pushed, popCount, putOrder, arrived>>

\* lines 46-50: the weight is drawn and the pool of NumberOfPoolWorkers
\* processes is created.
JobNewPool(w) ==
    /\ ListOfProcesses[w].pc = "pool"
    /\ \E Weight \in MinRandomWeight..MaxRandomWeight :
         ListOfProcesses' = [ListOfProcesses EXCEPT
             ![w].pc = "apply",
             ![w].RandomWeight = Weight,
             ![w].MyPool = NewInnerPool]
    /\ UNCHANGED <<notNested, ResultArrayOrdered, InputQueue, OutputQueue, innerCalls, mainpc, i, Output,
                   pushed, popCount, putOrder, arrived>>

\* line 48
WeightedNumbersToAdd(w) == ListOfProcesses[w].RandomWeight * ListOfProcesses[w].NumbersToAdd

\* Mutant: the sub-index of range() is passed on as it is.
NextSubtaskFromZero(w) == Len(ListOfProcesses[w].Result)

\* line 51: the argument SubtaskNumber+1 of the next apply_async, where
\* SubtaskNumber runs over range(NumberOfSubtasksInOneTask).
NextSubtask(w) == Len(ListOfProcesses[w].Result) + 1

\* line 51: one MyPool.apply_async(SumRandomNumbers, ...) of the list
\* comprehension; after the last one the worker goes on to line 52.
JobApplyAsync(w) ==
    /\ ListOfProcesses[w].pc = "apply"
    /\ ListOfProcesses' = [ListOfProcesses EXCEPT
           ![w].Result = Append(@, [SubtaskNumber |-> NextSubtask(w),
                                    args |-> WeightedNumbersToAdd(w),
                                    state |-> "queued", value |-> 0]),
           ![w].pc = IF Len(ListOfProcesses[w].Result) + 1 = NumberOfSubtasksInOneTask
                       THEN "collect" ELSE "apply"]
    /\ UNCHANGED <<notNested, ResultArrayOrdered, InputQueue, OutputQueue, innerCalls, mainpc, i, Output,
                   pushed, popCount, putOrder, arrived>>

\* The handles of worker w whose task has not finished.
Unfinished(w) == {s \in DOMAIN ListOfProcesses[w].Result :
                      ListOfProcesses[w].Result[s].state = "queued"}

\* A worker of the inner pool takes a submitted task and finishes
\* SumRandomNumbers; the value is stored in the AsyncResult of the task.  The
\* tasks are taken in the order of submission, so that a task can be the next
\* to finish when fewer unfinished tasks than workers precede it.
InnerRun(w) ==
    /\ \E s \in Unfinished(w) :
         /\ Cardinality({r \in Unfinished(w) : r < s}) < ListOfProcesses[w].MyPool.live
         /\ \E value \in SumRandomNumbers(ListOfProcesses[w].Result[s].args) :
              ListOfProcesses' = [ListOfProcesses EXCEPT
                  ![w].Result[s].state = "ready", ![w].Result[s].value = value]
    /\ innerCalls' = innerCalls + 1
    /\ UNCHANGED <<notNested, ResultArrayOrdered, InputQueue, OutputQueue, mainpc, i, Output,
                   pushed, popCount, putOrder, arrived>>

\* line 52: r.get() returns the value of the next handle once it is ready;
\* after the last one the worker goes on to line 53.
JobGet(w) ==
    /\ ListOfProcesses[w].pc = "collect"
    /\ LET s == Len(ListOfProcesses[w].ListOfSums) + 1
       IN /\ ListOfProcesses[w].Result[s].state = "ready"
          /\ ListOfProcesses' = [ListOfProcesses EXCEPT
                 ![w].ListOfSums = Append(@, ListOfProcesses[w].Result[s].value),
                 ![w].pc = IF s = Len(ListOfProcesses[w].Result) THEN "close" ELSE "collect"]
    /\ UNCHANGED <<notNested, ResultArrayOrdered, InputQueue, OutputQueue, innerCalls, mainpc, i, Output,
                   pushed, popCount, putOrder, arrived>>

\* line 53: MyPool.close()
JobClose(w) ==
    /\ ListOfProcesses[w].pc = "close"
    /\ ListOfProcesses' = [ListOfProcesses EXCEPT ![w].pc = "pooljoin", ![w].MyPool.closed = TRUE]
    /\ UNCHANGED <<notNested, ResultArrayOrdered, InputQueue, OutputQueue, innerCalls, mainpc, i, Output,
                   pushed, popCount, putOrder, arrived>>

\* After close() a worker of the inner pool with nothing left to do exits.
InnerExit(w) ==
    /\ ListOfProcesses[w].MyPool.closed
    /\ Unfinished(w) = {}
    /\ ListOfProcesses[w].MyPool.live > 0
    /\ ListOfProcesses' = [ListOfProcesses EXCEPT ![w].MyPool.live = @ - 1]
    /\ UNCHANGED <<notNested, ResultArrayOrdered, InputQueue, OutputQueue, innerCalls, mainpc, i, Output,
                   pushed, popCount, putOrder, arrived>>

\* Mutant: join() returns at once.
InnerJoinedAtOnce(w) == TRUE

\* MyPool.join() of worker w returns: every worker of the pool has exited.
InnerJoined(w) == ListOfProcesses[w].MyPool.live = 0

\* line 54: MyPool.join()
JobJoin(w) ==
    /\ ListOfProcesses[w].pc = "pooljoin"
    /\ InnerJoined(w)
    /\ ListOfProcesses' = [ListOfProcesses EXCEPT ![w].pc = "put"]
    /\ UNCHANGED <<notNested, ResultArrayOrdered, InputQueue, OutputQueue, innerCalls, mainpc, i, Output,
                   pushed, popCount, putOrder, arrived>>

\* Mutant: the worker puts the input value back into the input queue as well.
JobPutRequeue(w) ==
    /\ ListOfProcesses[w].pc = "put"
    /\ LET Sum == Reduction(ListOfProcesses[w].ListOfSums, NumberOfSubtasksInOneTask,
                            ListOfProcesses[w].RandomWeight)
       IN /\ OutputQueue' = QueuePut(OutputQueue, w, <<ListOfProcesses[w].NumbersToAdd, Sum>>)
          /\ putOrder' = Append(putOrder, <<ListOfProcesses[w].NumbersToAdd, Sum>>)
    /\ InputQueue' = QueuePut(InputQueue, w, ListOfProcesses[w].NumbersToAdd)
    /\ ListOfProcesses' = [ListOfProcesses EXCEPT
           ![w] = [NotStarted EXCEPT !.pc = "get", !.MyPool = ListOfProcesses[w].MyPool]]
    /\ UNCHANGED <<notNested, ResultArrayOrdered, innerCalls, mainpc, i, Output,
                   pushed, popCount, arrived>>

\* lines 55-56: the reduction, and OutputQueue.put((NumbersToAdd, Sum)); the
\* worker goes back to line 45.  The locals of this round are dead; MyPool
\* keeps naming the pool of this round until line 50 is reached again.
JobPut(w) ==
    /\ ListOfProcesses[w].pc = "put"
    /\ LET Sum == Reduction(ListOfProcesses[w].ListOfSums, NumberOfSubtasksInOneTask,
                            ListOfProcesses[w].RandomWeight)
       IN /\ OutputQueue' = QueuePut(OutputQueue, w, <<ListOfProcesses[w].NumbersToAdd, Sum>>)
          /\ putOrder' = Append(putOrder, <<ListOfProcesses[w].NumbersToAdd, Sum>>)
    /\ ListOfProcesses' = [ListOfProcesses EXCEPT
           ![w] = [NotStarted EXCEPT !.pc = "get", !.MyPool = ListOfProcesses[w].MyPool]]
    /\ UNCHANGED <<notNested, ResultArrayOrdered, InputQueue, innerCalls, mainpc, i, Output,
                   pushed, popCount, arrived>>

\* lines 58-59: Empty was caught, JobToPerformTasks returns; the process exits
\* once its feeder thread has sent everything the process has put.
JobExit(w) ==
    /\ ListOfProcesses[w].pc = "break"
    /\ ~CanFeed(OutputQueue, w)
    /\ ListOfProcesses' = [ListOfProcesses EXCEPT ![w].pc = "exited"]
    /\ UNCHANGED <<notNested, ResultArrayOrdered, InputQueue, OutputQueue, innerCalls, mainpc, i, Output,
                   pushed, popCount, putOrder, arrived>>

\* The feeder thread of worker w sends one result of the output queue.
JobOutputFeeder(w) ==
    /\ CanFeed(OutputQueue, w)
    /\ OutputQueue' = QueueFeed(OutputQueue, w)
    /\ arrived' = Append(arrived, Head(OutputQueue.buffer[w]))
    /\ UNCHANGED <<notNested, ResultArrayOrdered, InputQueue, ListOfProcesses, innerCalls, mainpc, i, Output,
                   pushed, popCount, putOrder>>

NextNested ==
    \/ NestedMainPut
    \/ NestedMainCreate
    \/ NestedMainStart
    \/ NestedMainGet
    \/ NestedMainDrained
    \/ NestedMainJoin
    \/ NestedInputFeeder
    \/ \E w \in Workers : JobAcquire(w)
    \/ \E w \in Workers : JobPoll(w)
    \/ \E w \in Workers : JobNewPool(w)
    \/ \E w \in Workers : JobApplyAsync(w)
    \/ \E w \in Workers : InnerRun(w)
    \/ \E w \in Workers : JobGet(w)
    \/ \E w \in Workers : JobClose(w)
    \/ \E w \in Workers : InnerExit(w)
    \/ \E w \in Workers : JobJoin(w)
    \/ \E w \in Workers : JobPut(w)
    \/ \E w \in Workers : JobExit(w)
    \/ \E w \in Workers : JobOutputFeeder(w)

SpecNested == InitNested /\ [][NextNested]_vars

(***************************************************************************)
(* One evaluation of the reduction of line 55 on given inner results.      *)
(***************************************************************************)

\* The lists of Subtasks inner results, each between 0 and MaxSum.
ListsOfSums(Subtasks) == [1..Subtasks -> 0..MaxSum]

InitReduce ==
    /\ NumberOfWorkers = NumberOfProcessWorkers
    /\ NumberOfTasks = 0
    /\ WeightOfComputation = 0
    /\ NumberOfSubtasksInOneTask \in 1..MaxSubtasks
    /\ reduceArgs \in {[ListOfSums |-> sums, RandomWeight |-> weight] :
                          sums \in ListsOfSums(NumberOfSubtasksInOneTask),
                          weight \in MinRandomWeight..MaxRandomWeight}
    /\ reduceSum = <<>>
    /\ InputQueue = NewQueue
    /\ OutputQueue = NewQueue
    /\ MyProcesses = <<>>
    /\ ListOfProcesses = <<>>
    /\ innerCalls = 0
    /\ ResultArrayOrdered = <<>>
    /\ mainpc = "reduce"
    /\ i = 0
    /\ Output = <<>>
    /\ pushed = <<>>
    /\ popCount = <<>>
    /\ putOrder = <<>>
    /\ arrived = <<>>
    /\ calls = <<>>
    /\ MyPool = NoPool
    /\ Results = <<>>
    /\ submitted = <<>>
    /\ finished = <<>>
    /\ DictUnused
    /\ JobsUnused

\* line 55
Reduce ==
    /\ mainpc = "reduce"
    /\ reduceSum' = <<Reduction(reduceArgs.ListOfSums, NumberOfSubtasksInOneTask,
                                reduceArgs.RandomWeight)>>
    /\ mainpc' = "done"
    /\ UNCHANGED <<params, i, Output, calls, queueVars, poolVars, nestedVars, reduceArgs, dictVars, jobsVars>>

NextReduce == Reduce

SpecReduce == InitReduce /\ [][NextReduce]_vars

(***************************************************************************)
(* UseProcess with a FunctionToEvaluate that can raise.  UsingQueues       *)
(* catches Empty only (lines 60-61): any other exception leaves the loop   *)
(* and the function, and the process ends with the traceback; like every   *)
(* process it ends only after its feeder thread has sent what it has put.  *)
(* CPUHeavyFunction raises ZeroDivisionError on line 50 when NumbersToDraw *)
(* is 0; with another weight a call raises or returns.                     *)
(***************************************************************************)

\* The weights of the runs with faults: 0, with which every call raises, and
\* 1 for the weights with which a call can return.
FaultWeights == {0, 1}

InitFault ==
    /\ NumberOfWorkers \in 1..MaxWorkers
    /\ NumberOfTasks \in 0..MaxTasks
    /\ WeightOfComputation \in FaultWeights
    /\ InputQueue = NewQueue
    /\ OutputQueue = NewQueue
    /\ MyProcesses = [w \in Workers |-> Created]
    /\ mainpc = "fill"
    /\ i = 0
    /\ Output = <<>>
    /\ pushed = <<>>
    /\ popCount = [t \in TaskIDs |-> 0]
    /\ putOrder = <<>>
    /\ arrived = <<>>
    /\ calls = [t \in TaskIDs |-> 0]
    /\ MyPool = NoPool
    /\ Results = <<>>
    /\ submitted = <<>>
    /\ finished = <<>>
    /\ NestedUnused
    /\ ReduceUnused
    /\ DictUnused
    /\ JobsUnused

\* lines 58-59 when the call returns: NumbersToDraw is not 0.
WorkerReturn(w) ==
    /\ MyProcesses[w].pc = "call"
    /\ MyProcesses[w].TupleOfArguments[1] # 0
    /\ WorkerCall(w)

\* Mutant: the worker puts the item back before it ends.
WorkerRaiseRequeue(w) ==
    /\ MyProcesses[w].pc = "call"
    /\ InputQueue' = QueuePut(InputQueue, w, MyProcesses[w].TupleOfArguments)
    /\ MyProcesses' = [MyProcesses EXCEPT ![w].pc = "raise"]
    /\ calls' = [calls EXCEPT ![MyProcesses[w].TupleOfArguments[2]] = @ + 1]
    /\ UNCHANGED <<params, OutputQueue,
                   mainpc, i, Output, popCount, putOrder, arrived, pushed, poolVars, elseVars>>

\* Mutant: the worker puts a result that marks the failure before it ends.
WorkerRaiseReported(w) ==
    /\ MyProcesses[w].pc = "call"
    /\ OutputQueue' = QueuePut(OutputQueue, w, <<MyProcesses[w].TupleOfArguments[2], <<>>>>)
    /\ putOrder' = Append(putOrder, <<MyProcesses[w].TupleOfArguments[2], <<>>>>)
    /\ MyProcesses' = [MyProcesses EXCEPT ![w].pc = "raise"]
    /\ calls' = [calls EXCEPT ![MyProcesses[w].TupleOfArguments[2]] = @ + 1]
    /\ UNCHANGED <<params, InputQueue,
                   mainpc, i, Output, popCount, arrived, pushed, poolVars, elseVars>>

\* line 58 when the call raises: the exception is not caught, nothing is put,
\* the popped tuple stays with the frame that is left.
WorkerRaise(w) ==
    /\ MyProcesses[w].pc = "call"
    /\ MyProcesses' = [MyProcesses EXCEPT ![w].pc = "raise"]
    /\ calls' = [calls EXCEPT ![MyProcesses[w].TupleOfArguments[2]] = @ + 1]
    /\ UNCHANGED <<params, InputQueue, OutputQueue,
                   mainpc, i, Output, popCount, putOrder, arrived, pushed, poolVars, elseVars>>

\* The process ends with the exception once its feeder thread has sent
\* everything the process has put.
WorkerCrash(w) ==
    /\ MyProcesses[w].pc = "raise"
    /\ ~CanFeed(OutputQueue, w)
    /\ MyProcesses' = [MyProcesses EXCEPT ![w].pc = "crashed"]
    /\ UNCHANGED <<params, InputQueue,
                   OutputQueue, mainpc, i, Output, popCount, putOrder, arrived, pushed, calls, poolVars, elseVars>>

NextFault ==
    \/ MainPut
    \/ MainCreate
    \/ MainStart
    \/ MainGet
    \/ MainDrained
    \/ MainJoin
    \/ InputFeeder
    \/ \E w \in Workers : WorkerAcquire(w)
    \/ \E w \in Workers : WorkerPoll(w)
    \/ \E w \in Workers : WorkerReturn(w)
    \/ \E w \in Workers : WorkerRaise(w)
    \/ \E w \in Workers : WorkerCrash(w)
    \/ \E w \in Workers : WorkerExit(w)
    \/ \E w \in Workers : OutputFeeder(w)

SpecFault == InitFault /\ [][NextFault]_vars

(***************************************************************************)
(* MultiprocessingDemonstrationManagerDictOfDicts.py: the pool of lines    *)
(* 51-54 runs Worker (lines 19-34) once for every key on the dictionary of *)
(* the manager.  NumberOfTasks holds the length of ListOfKeys,             *)
(* NumberOfWorkers the number of processes of the pool.  A read of         *)
(* Dict[Key] gives the process a copy of the entry, an assignment to       *)
(* Dict[Key] replaces the entry; each is one request to the manager.       *)
(***************************************************************************)

\* line 37: the keys of the dictionary
ListOfKeys == 1..NumberOfTasks

\* line 51: what multiprocessing.cpu_count() can return.
CPUCounts == {2, 3, 4}

\* line 28: the sequence is finished when its last element has reached this.
SequenceLimit == 1000

\* lines 39-44: the entry of every key after the initialisation
NewEntry == [Sequence |-> <<0, 1>>, CompFinished |-> FALSE]

NotSubmitted == [pc |-> "none", P |-> 0, Q |-> 0, TemporaryDict |-> <<>>]

\* lines 15-17
ComputeNextElementOfLucasSequence(Sequence, P, Q) ==
    P * Sequence[Len(Sequence)] - Q * Sequence[Len(Sequence) - 1]

\* Mutant: the assignment replaces the entry of the first key.
DictSetFirstKey(Dict, Key, Entry) == [Dict EXCEPT ![1] = Entry]

\* lines 27 and 33: Dict[Key] = TemporaryDict
DictSet(Dict, Key, Entry) == [Dict EXCEPT ![Key] = Entry]

InitDict ==
    /\ \E cpus \in CPUCounts : NumberOfWorkers = cpus \div 2
    /\ NumberOfTasks \in 1..MaxKeys
    /\ WeightOfComputation = 0
    /\ MyManagersDict = [k \in ListOfKeys |-> NewEntry]
    /\ WorkerCalls = [k \in ListOfKeys |-> NotSubmitted]
    /\ mainpc = "apply"
    /\ i = 0
    /\ InputQueue = NewQueue
    /\ OutputQueue = NewQueue
    /\ MyProcesses = <<>>
    /\ Output = <<>>
    /\ pushed = <<>>
    /\ popCount = <<>>
    /\ putOrder = <<>>
    /\ arrived = <<>>
    /\ calls = <<>>
    /\ MyPool = NoPool
    /\ Results = <<>>
    /\ submitted = <<>>
    /\ finished = <<>>
    /\ NestedUnused
    /\ ReduceUnused
    /\ JobsUnused

\* What no step of this run changes.
notDict == <<params, Output, calls, queueVars, poolVars, nestedVars, reduceVars, jobsVars>>

\* line 52: MyPool.apply_async(Worker, args=[MyManagersDict, k]) for the next key
DictApplyAsync ==
    /\ mainpc = "apply"
    /\ i < NumberOfTasks
    /\ WorkerCalls' = [WorkerCalls EXCEPT ![i + 1].pc = "queued"]
    /\ i' = i + 1
    /\ UNCHANGED <<notDict, mainpc, MyManagersDict>>

\* lines 52 -> 53: every key has been submitted; MyPool.close()
DictClose ==
    /\ mainpc = "apply"
    /\ i = NumberOfTasks
    /\ mainpc' = "pooljoin"
    /\ UNCHANGED <<notDict, i, MyManagersDict, WorkerCalls>>

\* line 54: MyPool.join() returns when every submitted call has returned and
\* the processes of the pool have exited.
DictJoin ==
    /\ mainpc = "pooljoin"
    /\ \A k \in ListOfKeys : WorkerCalls[k].pc = "returned"
    /\ mainpc' = "done"
    /\ UNCHANGED <<notDict, i, MyManagersDict, WorkerCalls>>

\* The calls that a process of the pool is running.
Running == {k \in ListOfKeys : WorkerCalls[k].pc \notin {"none", "queued", "returned"}}

\* A free process of the pool takes the oldest submitted call; lines 21-22:
\* P and Q are drawn.
WorkerBegin(k) ==
    /\ WorkerCalls[k].pc = "queued"
    /\ \A j \in ListOfKeys : WorkerCalls[j].pc = "queued" => k <= j
    /\ Cardinality(Running) < NumberOfWorkers
    /\ \E P \in 1..k, Q \in (0 - k)..(0 - 1) :
         WorkerCalls' = [WorkerCalls EXCEPT ![k] = [@ EXCEPT !.pc = "test", !.P = P, !.Q = Q]]
    /\ UNCHANGED <<notDict, mainpc, i, MyManagersDict>>

\* line 23: while Dict[Key]['CompFinished']==False
WorkerTest(k) ==
    /\ WorkerCalls[k].pc = "test"
    /\ WorkerCalls' = [WorkerCalls EXCEPT
           ![k].pc = IF MyManagersDict[k].CompFinished = FALSE THEN "read" ELSE "returned"]
    /\ UNCHANGED <<notDict, mainpc, i, MyManagersDict>>

\* lines 25-26: the entry is copied, and the next element is appended to the
\* sequence of the copy.
WorkerRead(k) ==
    /\ WorkerCalls[k].pc = "read"
    /\ WorkerCalls' = [WorkerCalls EXCEPT
           ![k].pc = "write",
           ![k].TemporaryDict =
               [MyManagersDict[k] EXCEPT !.Sequence =
                   Append(@, ComputeNextElementOfLucasSequence(
                                 MyManagersDict[k].Sequence, WorkerCalls[k].P, WorkerCalls[k].Q))]]
    /\ UNCHANGED <<notDict, mainpc, i, MyManagersDict>>

\* line 27: Dict[Key] = TemporaryDict
WorkerWrite(k) ==
    /\ WorkerCalls[k].pc = "write"
    /\ MyManagersDict' = DictSet(MyManagersDict, k, WorkerCalls[k].TemporaryDict)
    /\ WorkerCalls' = [WorkerCalls EXCEPT ![k].pc = "check"]
    /\ UNCHANGED <<notDict, mainpc, i>>

\* Mutant: the sequence is taken as finished at twice the limit only.
WorkerCheckLate(k) ==
    /\ WorkerCalls[k].pc = "check"
    /\ WorkerCalls' = [WorkerCalls EXCEPT
           ![k].pc = IF MyManagersDict[k].Sequence[Len(MyManagersDict[k].Sequence)] >= 2 * SequenceLimit
                       THEN "reread" ELSE "test"]
    /\ UNCHANGED <<notDict, mainpc, i, MyManagersDict>>

\* line 28: if Dict[Key]['Sequence'][-1]>=1000
WorkerCheck(k) ==
    /\ WorkerCalls[k].pc = "check"
    /\ WorkerCalls' = [WorkerCalls EXCEPT
           ![k].pc = IF MyManagersDict[k].Sequence[Len(MyManagersDict[k].Sequence)] >= SequenceLimit
                       THEN "reread" ELSE "test"]
    /\ UNCHANGED <<notDict, mainpc, i, MyManagersDict>>

\* lines 29-32: the entry is copied again; the copy is marked as finished and
\* gets P and Q.
WorkerReread(k) ==
    /\ WorkerCalls[k].pc = "reread"
    /\ WorkerCalls' = [WorkerCalls EXCEPT
           ![k].pc = "mark",
           ![k].TemporaryDict = [Sequence |-> MyManagersDict[k].Sequence,
                                 CompFinished |-> TRUE,
                                 P |-> WorkerCalls[k].P,
                                 Q |-> WorkerCalls[k].Q]]
    /\ UNCHANGED <<notDict, mainpc, i, MyManagersDict>>

\* lines 33-34: Dict[Key] = TemporaryDict; break
WorkerMark(k) ==
    /\ WorkerCalls[k].pc = "mark"
    /\ MyManagersDict' = DictSet(MyManagersDict, k, WorkerCalls[k].TemporaryDict)
    /\ WorkerCalls' = [WorkerCalls EXCEPT ![k].pc = "returned"]
    /\ UNCHANGED <<notDict, mainpc, i>>

NextDict ==
    \/ DictApplyAsync
    \/ DictClose
    \/ DictJoin
    \/ \E k \in ListOfKeys : WorkerBegin(k)
    \/ \E k \in ListOfKeys : WorkerTest(k)
    \/ \E k \in ListOfKeys : WorkerRead(k)
    \/ \E k \in ListOfKeys : WorkerWrite(k)
    \/ \E k \in ListOfKeys : WorkerCheck(k)
    \/ \E k \in ListOfKeys : WorkerReread(k)
    \/ \E k \in ListOfKeys : WorkerMark(k)

SpecDict == InitDict /\ [][NextDict]_vars

(***************************************************************************)
(* MultiprocessingDemonstrationProcess.py, case 4 (lines 89-103).          *)
(* NumberOfWorkers holds NumberOfProcesses (line 18), NumberOfTasks the    *)
(* number of input values put into QueueOfInputValues (lines 93-95);       *)
(* InputQueue and OutputQueue are QueueOfInputValues and QueueOfResults,   *)
(* Output is the list Results of line 100.  Job w runs                     *)
(* JobToSumRandomNumbersRepeatedly (lines 30-38) with JobID = w.  The      *)
(* input values 1.0, 2.0, ... are kept as the integers they equal.         *)
(***************************************************************************)

\* line 17
N == 60000000

\* line 35: NumberOfValuesToAdd = InputValue*N/25, and int() of it on line 26
NumberOfValuesToAdd(InputValue) == (InputValue * N) \div 25

\* lines 25-27: the sum of Count random numbers of [0,1) lies between 0 and
\* Count, and no step of the run depends on it; the value in the middle
\* stands for the outcomes.
RandomSum(Count) == {Count \div 2}

\* The order of Python on the tuples ((JobID, InputValue), Sum): by the job,
\* then by the input value, then by the sum.
TupleLess(a, b) ==
    \/ a[1][1] < b[1][1]
    \/ a[1][1] = b[1][1] /\ a[1][2] < b[1][2]
    \/ a[1] = b[1] /\ a[2] < b[2]

RECURSIVE InsertTuple(_, _)
\* The sorted list with one more tuple, placed behind the tuples equal to it.
InsertTuple(List, Tuple) ==
    IF List = <<>> THEN <<Tuple>>
    ELSE IF TupleLess(Tuple, Head(List)) THEN <<Tuple>> \o List
    ELSE <<Head(List)>> \o InsertTuple(Tail(List), Tuple)

RECURSIVE sorted(_)
\* Mutant: the list is left in the order of the drain.
Unsorted(List) == List

\* line 100: sorted(...)
sorted(List) ==
    IF List = <<>> THEN <<>>
    ELSE InsertTuple(sorted(SubSeq(List, 1, Len(List) - 1)), List[Len(List)])

NotStartedJob == [pc |-> "created", InputValue |-> 0]

InitCase4 ==
    /\ NumberOfWorkers \in 1..MaxWorkers
    /\ NumberOfTasks \in 0..MaxTasks
    /\ WeightOfComputation = 0
    /\ InputQueue = NewQueue
    /\ OutputQueue = NewQueue
    /\ MyProcesses = <<>>
    /\ Jobs = [w \in Workers |-> NotStartedJob]
    /\ mainpc = "fill"
    /\ i = 0
    /\ Output = <<>>
    /\ pushed = <<>>
    /\ popCount = [t \in TaskIDs |-> 0]
    /\ putOrder = <<>>
    /\ arrived = <<>>
    /\ calls = [t \in TaskIDs |-> 0]
    /\ MyPool = NoPool
    /\ Results = <<>>
    /\ submitted = <<>>
    /\ finished = <<>>
    /\ NestedUnused
    /\ ReduceUnused
    /\ DictUnused

\* What no step of case 4 changes.
notCase4 == <<params, MyProcesses, calls, poolVars, nestedVars, reduceVars, dictVars>>

\* lines 93-94: QueueOfInputValues.put(i) for the next i of 1, 2, ...
Case4Put ==
    /\ mainpc = "fill"
    /\ i < NumberOfTasks
    /\ InputQueue' = QueuePut(InputQueue, Main, i + 1)
    /\ pushed' = Append(pushed, i + 1)
    /\ i' = i + 1
    /\ UNCHANGED <<notCase4, OutputQueue, Jobs, mainpc, Output, popCount, putOrder, arrived>>

\* lines 95-97: the number of tasks is read, the queue of results and the
\* Process objects are created.
Case4Create ==
    /\ mainpc = "fill"
    /\ i = NumberOfTasks
    /\ mainpc' = "start"
    /\ i' = 1
    /\ UNCHANGED <<notCase4, InputQueue, OutputQueue, Jobs, Output, pushed, popCount,
                   putOrder, arrived>>

\* lines 98-99: j.start() for the i-th job
Case4Start ==
    /\ mainpc = "start"
    /\ Jobs' = [Jobs EXCEPT ![i].pc = "get"]
    /\ IF i < NumberOfWorkers
         THEN i' = i + 1 /\ mainpc' = mainpc
         ELSE i' = 0 /\ mainpc' = "drain"
    /\ UNCHANGED <<notCase4, InputQueue, OutputQueue, Output, pushed, popCount,
                   putOrder, arrived>>

\* line 100: one QueueOfResults.get() of the list comprehension
Case4Get ==
    /\ mainpc = "drain"
    /\ DrainWants
    /\ CanGet(OutputQueue)
    /\ Output' = Append(Output, Received(OutputQueue))
    /\ OutputQueue' = QueueRecv(OutputQueue)
    /\ UNCHANGED <<notCase4, InputQueue, Jobs, mainpc, i, pushed, popCount, putOrder, arrived>>

\* line 100: the list has NumberOfTasks elements; Results is the sorted list.
Case4Sorted ==
    /\ mainpc = "drain"
    /\ ~DrainWants
    /\ Output' = sorted(Output)
    /\ mainpc' = "join"
    /\ i' = 1
    /\ UNCHANGED <<notCase4, InputQueue, OutputQueue, Jobs, pushed, popCount, putOrder, arrived>>

\* lines 102-103: j.join() for the i-th job
Case4Join ==
    /\ mainpc = "join"
    /\ Jobs[i].pc = "exited"
    /\ IF i < NumberOfWorkers
         THEN i' = i + 1 /\ mainpc' = mainpc
         ELSE i' = 0 /\ mainpc' = "done"
    /\ UNCHANGED <<notCase4, InputQueue, OutputQueue, Jobs, Output, pushed, popCount,
                   putOrder, arrived>>

\* The feeder thread of the main process sends one input value.
Case4InputFeeder ==
    /\ CanFeed(InputQueue, Main)
    /\ InputQueue' = QueueFeed(InputQueue, Main)
    /\ UNCHANGED <<notCase4, OutputQueue, Jobs, mainpc, i, Output, pushed, popCount,
                   putOrder, arrived>>

\* Mutant: a job that has put more results than another job gets Empty.
RepeatAcquireInTurn(w) ==
    /\ Jobs[w].pc = "get"
    /\ IF /\ CanAcquire(InputQueue)
          /\ \A v \in Workers :
                Cardinality({k \in DOMAIN putOrder : putOrder[k][1][1] = w})
                    <= Cardinality({k \in DOMAIN putOrder : putOrder[k][1][1] = v})
         THEN /\ InputQueue' = QueueAcquire(InputQueue, w)
              /\ Jobs' = [Jobs EXCEPT ![w].pc = "poll"]
         ELSE /\ InputQueue' = InputQueue
              /\ Jobs' = [Jobs EXCEPT ![w].pc = "break"]
    /\ UNCHANGED <<notCase4, OutputQueue, mainpc, i, Output, pushed, popCount, putOrder, arrived>>

\* line 34, first half of InputQueue.get(block=False): take the reader lock,
\* or raise Empty at once when another process holds it.
RepeatAcquire(w) ==
    /\ Jobs[w].pc = "get"
    /\ IF CanAcquire(InputQueue)
         THEN /\ InputQueue' = QueueAcquire(InputQueue, w)
              /\ Jobs' = [Jobs EXCEPT ![w].pc = "poll"]
         ELSE /\ InputQueue' = InputQueue
              /\ Jobs' = [Jobs EXCEPT ![w].pc = "break"]
    /\ UNCHANGED <<notCase4, OutputQueue, mainpc, i, Output, pushed, popCount, putOrder, arrived>>

\* line 34, second half: receive an input value, or raise Empty when the pipe
\* holds nothing; the reader lock is released either way.
RepeatPoll(w) ==
    /\ Jobs[w].pc = "poll"
    /\ IF Poll(InputQueue)
         THEN /\ InputQueue' = QueueRecv(InputQueue)
              /\ Jobs' = [Jobs EXCEPT ![w] = [pc |-> "sum", InputValue |-> Received(InputQueue)]]
              /\ popCount' = [popCount EXCEPT ![Received(InputQueue) - 1] = @ + 1]
         ELSE /\ InputQueue' = QueueRelease(InputQueue)
              /\ Jobs' = [Jobs EXCEPT ![w].pc = "break"]
              /\ popCount' = popCount
    /\ UNCHANGED <<notCase4, OutputQueue, mainpc, i, Output, pushed, putOrder, arrived>>

\* lines 35-36 with lines 25-28: SumRandomNumbers adds the random numbers and
\* puts ((JobID, int(InputValue)), Sum); the job goes back to line 34.
RepeatSum(w) ==
    /\ Jobs[w].pc = "sum"
    /\ \E Sum \in RandomSum(NumberOfValuesToAdd(Jobs[w].InputValue)) :
         /\ OutputQueue' = QueuePut(OutputQueue, w, <<<<w, Jobs[w].InputValue>>, Sum>>)
         /\ putOrder' = Append(putOrder, <<<<w, Jobs[w].InputValue>>, Sum>>)
    /\ Jobs' = [Jobs EXCEPT ![w] = [pc |-> "get", InputValue |-> 0]]
    /\ UNCHANGED <<notCase4, InputQueue, mainpc, i, Output, pushed, popCount, arrived>>

\* lines 37-38: Empty was caught, the job returns; the process exits once its
\* feeder thread has sent everything the process has put.
RepeatExit(w) ==
    /\ Jobs[w].pc = "break"
    /\ ~CanFeed(OutputQueue, w)
    /\ Jobs' = [Jobs EXCEPT ![w].pc = "exited"]
    /\ UNCHANGED <<notCase4, InputQueue, OutputQueue, mainpc, i, Output, pushed, popCount,
                   putOrder, arrived>>

\* The feeder thread of job w sends one result.
RepeatOutputFeeder(w) ==
    /\ CanFeed(OutputQueue, w)
    /\ OutputQueue' = QueueFeed(OutputQueue, w)
    /\ arrived' = Append(arrived, Head(OutputQueue.buffer[w]))
    /\ UNCHANGED <<notCase4, InputQueue, Jobs, mainpc, i, Output, pushed, popCount, putOrder>>

NextCase4 ==
    \/ Case4Put
    \/ Case4Create
    \/ Case4Start
    \/ Case4Get
    \/ Case4Sorted
    \/ Case4Join
    \/ Case4InputFeeder
    \/ \E w \in Workers : RepeatAcquire(w)
    \/ \E w \in Workers : RepeatPoll(w)
    \/ \E w \in Workers : RepeatSum(w)
    \/ \E w \in Workers : RepeatExit(w)
    \/ \E w \in Workers : RepeatOutputFeeder(w)

SpecCase4 == InitCase4 /\ [][NextCase4]_vars

(***************************************************************************)
(* Vocabulary of the properties                                            *)
(***************************************************************************)
\* The id of a queued item (WeightOfComputation, i) and of a result (ID, Pi).
ItemID(item) == item[2]
ResultID(result) == result[1]

\* How often id t occurs among the items, and among the results, of a sequence.
ItemCount(seq, t) == Cardinality({k \in DOMAIN seq : ItemID(seq[k]) = t})
ResultCount(seq, t) == Cardinality({k \in DOMAIN seq : ResultID(seq[k]) = t})

\* The ids of a sequence of results, in order.
ResultIDs(seq) == [k \in DOMAIN seq |-> ResultID(seq[k])]

\* Every id that occurs anywhere in the run.
SeenIDs == 0..MaxTasks

\* The drain of line 101 has returned.
DrainReturned == mainpc \in {"join", "done"}

\* Every worker has been started and has exited.
AllExited == \A w \in Workers : MyProcesses[w].pc = "exited"

\* Items put into InputQueue and not popped yet.
Queued == InputQueue.buffer[Main] \o InputQueue.pipe

\* Worker w has observed Empty.
SawEmpty(w) == MyProcesses[w].pc \in {"break", "exited"}

C2_OrderPreserved ==
    /\ Len(Output) <= Len(submitted)
    /\ \A k \in DOMAIN Output :
           /\ ResultID(Output[k]) = ItemID(submitted[k])
           /\ Results[k].ready
           /\ Output[k] = Results[k].value
    /\ mainpc \in {"close", "pooljoin", "done"} =>
           /\ Len(Output) = NumberOfTasks
           /\ ResultIDs(Output) = [k \in 1..NumberOfTasks |-> k - 1]

\* The second task finished before the first, and the list is complete.
C2_Witness ==
    /\ mainpc = "done"
    /\ finished = <<2, 1>>
    /\ ResultIDs(Output) = <<0, 1>>

(***************************************************************************)
(* C3: no double consumption and no loss. When every worker has left its   *)
(* pop-until-Empty loop, every pushed item has been returned by exactly    *)
(* one successful InputQueue.get(block=False), so the number of successful *)
(* pops equals the number of items pushed.                                 *)
(***************************************************************************)
C3_EveryItemPoppedOnce ==
    AllExited => \A t \in TaskIDs : popCount[t] = 1

(***************************************************************************)
(* C4: teardown barrier. When the loop of p.join() has returned, every     *)
(* started worker has exited, holds no item and no lock, and has nothing   *)
(* left to send; while the loop runs, this holds of the workers joined so  *)
(* far.                                                                    *)
(***************************************************************************)
Terminated(w) ==
    /\ MyProcesses[w] = [pc |-> "exited", TupleOfArguments |-> <<>>]
    /\ InputQueue.rlock # w
    /\ OutputQueue.buffer[w] = <<>>

C4_TeardownBarrier ==
    /\ mainpc = "done" => \A w \in Workers : Terminated(w)
    /\ mainpc = "join" => \A w \in 1..(i - 1) : Terminated(w)

\* The join loop has returned for two workers that shared two tasks.
C4_Witness ==
    /\ mainpc = "done"
    /\ NumberOfWorkers = 2
    /\ NumberOfTasks = 2
    /\ putOrder # <<>>

(***************************************************************************)
(* C5 (as amended): the drain does not return before exactly               *)
(* NumberOfTasks results have been put, and the sequence it returns is the *)
(* results in the order in which they reached the pipe of OutputQueue      *)
(* (arrival order); the results put by one worker keep the order of that   *)
(* worker's put calls.                                                     *)
(***************************************************************************)
\* A step keeps the results of worker w in the order of its put calls: the
\* buffer of w grows at its end by the result just put, or loses its oldest
\* result, which is the one that arrives.
C5_WorkerOrderKept(w) ==
    LET buf == OutputQueue.buffer[w]
        buf2 == OutputQueue'.buffer[w]
    IN \/ buf2 = buf
       \/ /\ Len(putOrder') = Len(putOrder) + 1
          /\ buf2 = Append(buf, putOrder'[Len(putOrder')])
          /\ arrived' = arrived
       \/ /\ buf # <<>>
          /\ buf2 = Tail(buf)
          /\ arrived' = Append(arrived, Head(buf))
          /\ putOrder' = putOrder

C5_DrainArrivalOrder ==
    /\ [](/\ Len(Output) <= Len(arrived)
          /\ Output = SubSeq(arrived, 1, Len(Output))
          /\ (DrainReturned => Len(putOrder) = NumberOfTasks /\ Output = arrived))
    /\ [][\A w \in Workers : C5_WorkerOrderKept(w)]_vars

\* The drain has returned two results that arrived against the order of the
\* put calls.
C5_Witness ==
    /\ DrainReturned
    /\ Len(putOrder) = 2
    /\ Output = <<putOrder[2], putOrder[1]>>

\* C5 as stated: the sequence the drain returns is the results in the order
\* of the put calls.
C5_DrainPutOrder ==
    DrainReturned =>
        /\ Len(putOrder) = NumberOfTasks
        /\ Output = putOrder

(***************************************************************************)
(* C6: worker loop protocol. A worker leaves its loop only by observing    *)
(* Empty on a non-blocking pop (lock taken by another process, or nothing  *)
(* in the pipe) and exits only after that; a successful pop is followed by *)
(* one call and one put of a result that carries the id of the popped      *)
(* item, after which the worker pops again; no result is put without a     *)
(* preceding successful pop of its item.                                   *)
(***************************************************************************)
C6_WorkerStep(w) ==
    LET old == MyProcesses[w]
        new == MyProcesses'[w]
        buf == OutputQueue.buffer[w]
        buf2 == OutputQueue'.buffer[w]
    IN /\ (old.pc # "break" /\ new.pc = "break") =>
              \/ old.pc = "get" /\ ~CanAcquire(InputQueue)
              \/ old.pc = "poll" /\ ~Poll(InputQueue)
       /\ (old.pc # "exited" /\ new.pc = "exited") => old.pc = "break"
       /\ (old.pc # "call" /\ new.pc = "call") =>
              /\ old.pc = "poll"
              /\ Poll(InputQueue)
              /\ new.TupleOfArguments = Received(InputQueue)
              /\ popCount'[ItemID(new.TupleOfArguments)] = popCount[ItemID(new.TupleOfArguments)] + 1
       /\ (old.pc = "call" /\ new.pc # "call") =>
              /\ new.pc = "get"
              /\ Len(buf2) = Len(buf) + 1
       /\ Len(buf2) > Len(buf) =>
              /\ old.pc = "call"
              /\ Len(buf2) = Len(buf) + 1
              /\ SubSeq(buf2, 1, Len(buf)) = buf
              /\ ResultID(buf2[Len(buf2)]) = ItemID(old.TupleOfArguments)
              /\ popCount[ItemID(old.TupleOfArguments)] >= 1

C6_WorkerLoopProtocol == [][\A w \in Workers : C6_WorkerStep(w)]_vars

\* A worker that has put a result is popping again while results of both
\* tasks are on their way.
C6_Witness ==
    /\ Len(putOrder) = 2
    /\ \E w \in Workers : MyProcesses[w].pc = "poll" /\ OutputQueue.buffer[w] # <<>>

(***************************************************************************)
(* C7: Empty only when no item is available. Whenever a worker has         *)
(* observed Empty, every item the main process pushed before starting the  *)
(* workers has been popped: nothing is left in InputQueue.                 *)
(***************************************************************************)
C7_EmptyOnlyWhenDrained ==
    \A w \in Workers : SawEmpty(w) => Queued = <<>>

(***************************************************************************)
(* C8: run to completion. There is no state in which all workers have      *)
(* terminated while an item remains in InputQueue.                         *)
(***************************************************************************)
C8_NoItemLeftBehind ==
    ~(AllExited /\ Queued # <<>>)

(***************************************************************************)
(* C9: no ordering guarantee. Nothing orders the workers: whenever two     *)
(* workers each hold a popped item, either may compute and put first, and  *)
(* whenever two workers each hold a result to send, either result may      *)
(* reach the pipe first; so the results can arrive against the order in    *)
(* which the tasks were pushed (the witness).                              *)
(***************************************************************************)
C9_NoOrderEnforced ==
    \A v, w \in Workers :
        /\ (v # w /\ MyProcesses[v].pc = "call" /\ MyProcesses[w].pc = "call") =>
               (ENABLED WorkerCall(v)) /\ (ENABLED WorkerCall(w))
        /\ (v # w /\ CanFeed(OutputQueue, v) /\ CanFeed(OutputQueue, w)) =>
               (ENABLED OutputFeeder(v)) /\ (ENABLED OutputFeeder(w))

\* The task pushed first is the one whose result arrived last.
C9_Witness ==
    /\ DrainReturned
    /\ ResultIDs(pushed) # <<>>
    /\ [k \in DOMAIN pushed |-> ItemID(pushed[k])] = <<0, 1>>
    /\ ResultIDs(Output) = <<1, 0>>

(***************************************************************************)
(* C10: a drain whose count is never reached hangs. Once every worker has  *)
(* terminated with fewer than NumberOfTasks results put, the main process  *)
(* is in the drain of line 101 and stays there for ever: it never reaches  *)
(* the join of line 104.                                                   *)
(***************************************************************************)
Starved == AllExited /\ Len(putOrder) < NumberOfTasks

C10_DrainHangs ==
    [][Starved => (mainpc = "drain" /\ mainpc' = "drain" /\ Starved')]_vars

\* Both workers have terminated, one task was never popped, and the main
\* process has taken the only result there will ever be.
C10_Witness ==
    /\ Starved
    /\ NumberOfTasks = 2
    /\ NumberOfWorkers = 2
    /\ Len(Output) = 1
    /\ mainpc = "drain"

(***************************************************************************)
(* Vocabulary of the nested run                                            *)
(***************************************************************************)

\* Worker w holds a popped outer item: it is between line 45 and line 56.
HoldsItem(w) == ListOfProcesses[w].pc \in {"pool", "apply", "collect", "close", "pooljoin", "put"}

\* Worker w is between the creation of its pool and the return of join().
HasPool(w) == ListOfProcesses[w].pc \in {"apply", "collect", "close", "pooljoin"}

\* The number of results put for the outer item v, and of workers holding it.
PairCount(seq, v) == Cardinality({k \in DOMAIN seq : seq[k][1] = v})
HolderCount(v) == Cardinality({w \in Workers : HoldsItem(w) /\ ListOfProcesses[w].NumbersToAdd = v})

\* A step of worker w that puts a result.
PutsResult(w) == ListOfProcesses[w].pc = "put" /\ ListOfProcesses'[w].pc # "put"

(***************************************************************************)
(* C11: nested execution per outer item. A worker that puts a result has   *)
(* submitted exactly NumberOfSubtasksInOneTask inner tasks, with the       *)
(* sub-indices 1..NumberOfSubtasksInOneTask in this order, to a pool that  *)
(* was created for this item, and has collected the value of each of       *)
(* them; what it puts is one pair of the popped input value and the        *)
(* reduction of the collected values; every successful pop is answered by  *)
(* at most one pair, and by exactly one once the worker is back at the     *)
(* pop.                                                                    *)
(***************************************************************************)
C11_ItemStep(w) ==
    /\ PutsResult(w) =>
         /\ Len(ListOfProcesses[w].Result) = NumberOfSubtasksInOneTask
         /\ \A s \in 1..NumberOfSubtasksInOneTask :
              /\ ListOfProcesses[w].Result[s].SubtaskNumber = s
              /\ ListOfProcesses[w].Result[s].state = "ready"
              /\ ListOfProcesses[w].Result[s].args =
                     ListOfProcesses[w].RandomWeight * ListOfProcesses[w].NumbersToAdd
         /\ ListOfProcesses[w].ListOfSums =
                [s \in 1..NumberOfSubtasksInOneTask |-> ListOfProcesses[w].Result[s].value]
         /\ putOrder' = Append(putOrder,
                <<ListOfProcesses[w].NumbersToAdd,
                  (2 * SeqSum(ListOfProcesses[w].ListOfSums))
                      \div (NumberOfSubtasksInOneTask * ListOfProcesses[w].RandomWeight)>>)
         /\ OutputQueue'.buffer[w] = Append(OutputQueue.buffer[w], putOrder'[Len(putOrder')])
    /\ (ListOfProcesses[w].pc = "pool" /\ ListOfProcesses'[w].pc # "pool") =>
         /\ ListOfProcesses[w].Result = <<>>
         /\ ListOfProcesses[w].ListOfSums = <<>>
         /\ ListOfProcesses'[w].Result = <<>>
         /\ ListOfProcesses'[w].MyPool = [live |-> NumberOfPoolWorkers, closed |-> FALSE]
    /\ putOrder' # putOrder => \E v \in Workers : PutsResult(v)

C11_NestedPerItem ==
    /\ [](\A v \in 1..MaxOuterTasks :
            v \in 1..NumberOfTasks =>
                PairCount(putOrder, v) + HolderCount(v) = popCount[v - 1])
    /\ [][\A w \in Workers : C11_ItemStep(w)]_vars

\* Both workers have put a result of two inner tasks each.
C11_Witness ==
    /\ NumberOfSubtasksInOneTask = 2
    /\ Len(putOrder) = 2
    /\ innerCalls = 4
    /\ \A w \in Workers : ListOfProcesses[w].MyPool.closed

(***************************************************************************)
(* C12: no leaked inner pool. A worker has live inner-pool processes only  *)
(* between the creation of its pool (line 50) and the return of            *)
(* MyPool.join() (line 54): none is left when it puts its result, pops     *)
(* again, creates the next pool or exits; so it owns at most one live      *)
(* pool at a time, of at most NumberOfPoolWorkers processes.               *)
(***************************************************************************)
C12_NoLeakedInnerPool ==
    \A w \in Workers :
        /\ ~HasPool(w) => ListOfProcesses[w].MyPool.live = 0
        /\ ListOfProcesses[w].MyPool.live <= NumberOfPoolWorkers

\* A worker is in its second pop after a round whose pool has been joined.
C12_Witness ==
    \E w \in Workers :
        /\ ListOfProcesses[w].pc = "poll"
        /\ ListOfProcesses[w].MyPool.closed
        /\ Len(putOrder) >= 1

\* The processes alive: the main process, the started outer workers that
\* have not exited, and the processes of their inner pools.
RECURSIVE LiveInner(_)
LiveInner(S) ==
    IF S = {} THEN 0
    ELSE LET w == CHOOSE w \in S : TRUE
         IN ListOfProcesses[w].MyPool.live + LiveInner(S \ {w})

LiveContexts ==
    1 + Cardinality({w \in Workers : ListOfProcesses[w].pc \notin {"created", "exited"}})
      + LiveInner(Workers)

(***************************************************************************)
(* C13 (as amended): at every moment the number of live processes (the     *)
(* main process, the outer workers, the processes of the inner pools) is   *)
(* at most NumberOfProcessWorkers*(NumberOfPoolWorkers + 1) + 1: an outer  *)
(* worker that waits for its inner results is alive beside the processes   *)
(* of its pool.                                                            *)
(***************************************************************************)
C13_PeakContexts ==
    LiveContexts <= NumberOfProcessWorkers * (NumberOfPoolWorkers + 1) + 1

\* Every outer worker waits for a pool of NumberOfPoolWorkers processes.
C13_Witness ==
    /\ \A w \in Workers : HasPool(w)
    /\ LiveContexts = NumberOfProcessWorkers * (NumberOfPoolWorkers + 1) + 1

\* C13 as stated: at most NumberOfProcessWorkers*NumberOfPoolWorkers + 1
\* processes are alive at any moment.
C13_PeakContextsAsStated ==
    LiveContexts <= NumberOfProcessWorkers * NumberOfPoolWorkers + 1

\* The evaluation of line 55 has been made on inner results that all equal c.
ReducedEqualSums(c) ==
    /\ reduceSum # <<>>
    /\ \A s \in DOMAIN reduceArgs.ListOfSums : reduceArgs.ListOfSums[s] = c

Faulted(w) == MyProcesses[w].pc \in {"raise", "crashed"}
HasFaulted == \E w \in Workers : Faulted(w)

\* The ids of the items whose call has raised.
FaultedIDs == {MyProcesses[w].TupleOfArguments[2] : w \in {v \in Workers : Faulted(v)}}

\* Every process has ended, by returning or with an exception.
AllEnded == \A w \in Workers : MyProcesses[w].pc \in {"exited", "crashed"}

(***************************************************************************)
(* C15: failure isolation. When every process has ended, one of them with  *)
(* an exception of its call and another by returning, every item other     *)
(* than those whose call has raised has been popped once and has one       *)
(* result put.                                                             *)
(***************************************************************************)
C15_SiblingsFinishTheRest ==
    (AllEnded /\ HasFaulted /\ \E w \in Workers : MyProcesses[w].pc = "exited") =>
        \A t \in TaskIDs \ FaultedIDs :
            popCount[t] = 1 /\ ResultCount(putOrder, t) = 1

\* A step of worker w or of its feeder thread.
WorkerMoves(w) ==
    \/ MyProcesses'[w] # MyProcesses[w]
    \/ OutputQueue'.buffer[w] # OutputQueue.buffer[w]

\* What is left of the run of worker w after its call has raised: it ends,
\* and it puts nothing any more.
C16_AfterFault(w) ==
    Faulted(w) =>
        /\ Faulted(w)'
        /\ MyProcesses'[w].TupleOfArguments = MyProcesses[w].TupleOfArguments
        /\ Len(OutputQueue'.buffer[w]) <= Len(OutputQueue.buffer[w])
        /\ InputQueue'.buffer[w] = InputQueue.buffer[w]

(***************************************************************************)
(* C16: a fault loses the item silently. An item whose call has raised is  *)
(* in no buffer and not in the pipe of InputQueue, no result with its id   *)
(* has been put, and it was popped once; the worker ends without putting   *)
(* anything more; fewer results have been put, have arrived and have been  *)
(* taken by the main process than items were pushed.                       *)
(***************************************************************************)
C16_FaultLosesItem ==
    /\ [](\A w \in Workers :
            Faulted(w) =>
                LET t == MyProcesses[w].TupleOfArguments[2]
                IN /\ \A p \in Procs : ItemCount(InputQueue.buffer[p], t) = 0
                   /\ ItemCount(InputQueue.pipe, t) = 0
                   /\ ResultCount(putOrder, t) = 0
                   /\ popCount[t] = 1
                   /\ Len(pushed) = NumberOfTasks
                   /\ Len(putOrder) < Len(pushed)
                   /\ Len(arrived) < Len(pushed)
                   /\ Len(Output) < Len(pushed))
    /\ [][\A w \in Workers : C16_AfterFault(w)]_vars

\* One call has raised and the call of the other item has returned: the one
\* result has arrived at the main process, which waits for a second one.
C16_Witness ==
    /\ NumberOfTasks = 2
    /\ Len(Output) = 1
    /\ AllEnded
    /\ HasFaulted
    /\ ResultID(Output[1]) \notin FaultedIDs

\* The distance of the workers from their end: what is left in InputQueue,
\* the position of every process, and what its feeder thread has to send.
Position(pc) ==
    CASE pc = "call" -> 5
      [] pc = "created" -> 4
      [] pc = "get" -> 3
      [] pc = "poll" -> 2
      [] pc \in {"break", "raise"} -> 1
      [] OTHER -> 0

RECURSIVE DistanceOf(_)
DistanceOf(S) ==
    IF S = {} THEN 0
    ELSE LET w == CHOOSE w \in S : TRUE
         IN Position(MyProcesses[w].pc) + Len(OutputQueue.buffer[w]) + DistanceOf(S \ {w})

Distance == 4 * Len(Queued) + DistanceOf(Workers)

\* Some worker, or its feeder thread, can take a step.
WorkerCanMove ==
    \E w \in Workers :
        \/ ENABLED WorkerAcquire(w)
        \/ ENABLED WorkerPoll(w)
        \/ ENABLED WorkerReturn(w)
        \/ ENABLED WorkerRaise(w)
        \/ ENABLED WorkerCrash(w)
        \/ ENABLED WorkerExit(w)
        \/ ENABLED OutputFeeder(w)

(***************************************************************************)
(* C17: a fault between pop and put hangs the drain. Once a call has       *)
(* raised, the main process has not left line 101 and never leaves it: it  *)
(* holds fewer than NumberOfTasks results and executes no join.  The       *)
(* workers end all the same: every step of a worker or of its feeder       *)
(* thread brings the workers closer to their end, and when the main        *)
(* process waits and no worker can take a step, every process has ended.   *)
(***************************************************************************)
C17_FaultHangsDrain ==
    /\ [](HasFaulted =>
            /\ mainpc \in {"start", "drain"}
            /\ Len(Output) < NumberOfTasks)
    /\ [](mainpc = "drain" /\ ~WorkerCanMove => AllEnded)
    /\ [][HasFaulted => HasFaulted']_vars
    /\ [][(\E w \in Workers : WorkerMoves(w)) => Distance' < Distance]_vars

\* The main process waits for a result that no process will put: every
\* process has ended, one of them with an exception, and nothing is left to
\* receive.
C17_Witness ==
    /\ mainpc = "drain"
    /\ AllEnded
    /\ HasFaulted
    /\ ~Poll(OutputQueue)
    /\ Len(Output) < NumberOfTasks
    /\ ~ENABLED NextFault


\* The places where the task of handle k of the pool is.
PlacesOfJob(k) ==
    Cardinality({n \in DOMAIN MyPool.taskqueue : MyPool.taskqueue[n].job = k})
      + Cardinality({w \in Workers : MyPool.worker[w].state = "busy" /\ MyPool.worker[w].job = k})
      + Cardinality({n \in DOMAIN finished : finished[n] = k})

(***************************************************************************)
(* C18: the wait of the direct-submit run is a barrier. A submitted task   *)
(* is at every moment in exactly one place: waiting in the pool, with one  *)
(* worker, or finished; CPUHeavyFunction is called at most once per id.    *)
(* The caller is past the list of r.get() of line 81 only when every       *)
(* submitted task has finished, with one call per id and its value         *)
(* collected; it is past MyPool.join() of line 83 only when every worker   *)
(* of the pool has exited.                                                 *)
(***************************************************************************)
C18_WaitIsBarrier ==
    /\ \A k \in 1..Len(Results) : PlacesOfJob(k) = 1
    /\ \A t \in TaskIDs : calls[t] <= 1
    /\ mainpc \in {"close", "pooljoin", "done"} =>
         /\ Len(Results) = NumberOfTasks
         /\ Len(finished) = NumberOfTasks
         /\ Len(Output) = NumberOfTasks
         /\ \A k \in 1..NumberOfTasks : Results[k].ready
         /\ \A t \in TaskIDs : calls[t] = 1
         /\ \A w \in Workers : MyPool.worker[w].state # "busy"
    /\ mainpc = "done" => \A w \in Workers : MyPool.worker[w].state = "exited"

\* join() has returned after two workers finished two tasks, the second
\* submitted first.
C18_Witness ==
    /\ mainpc = "done"
    /\ NumberOfWorkers = 2
    /\ finished = <<2, 1>>

\* The sequence is the beginning of the Lucas sequence of P and Q.
IsLucasSequence(Sequence, P, Q) ==
    /\ Len(Sequence) >= 2
    /\ Sequence[1] = 0
    /\ Sequence[2] = 1
    /\ \A n \in 3..Len(Sequence) : Sequence[n] = P * Sequence[n - 1] - Q * Sequence[n - 2]

\* The call of Worker for key k has begun.
Begun(k) == WorkerCalls[k].pc \notin {"none", "queued"}

\* A step changes the entry of key k of the dictionary.
EntryChanges(k) ==
    \/ MyManagersDict'[k].Sequence # MyManagersDict[k].Sequence
    \/ MyManagersDict'[k].CompFinished # MyManagersDict[k].CompFinished
    \/ DOMAIN MyManagersDict'[k] # DOMAIN MyManagersDict[k]

\* The entry of key k changes only by the assignment of the private copy of
\* the call for k, which extends the sequence read by one element on line
\* 27 and leaves it as it is on line 33; the other entries stay.
C19_EntryStep(k) ==
    EntryChanges(k) =>
        /\ WorkerCalls[k].pc \in {"write", "mark"}
        /\ MyManagersDict'[k].Sequence = WorkerCalls[k].TemporaryDict.Sequence
        /\ MyManagersDict'[k].CompFinished = WorkerCalls[k].TemporaryDict.CompFinished
        /\ WorkerCalls[k].pc = "write" =>
             /\ Len(MyManagersDict'[k].Sequence) = Len(MyManagersDict[k].Sequence) + 1
             /\ SubSeq(MyManagersDict'[k].Sequence, 1, Len(MyManagersDict[k].Sequence))
                    = MyManagersDict[k].Sequence
        /\ WorkerCalls[k].pc = "mark" =>
             /\ MyManagersDict'[k].Sequence = MyManagersDict[k].Sequence
             /\ MyManagersDict'[k].CompFinished
             /\ MyManagersDict'[k].P = WorkerCalls[k].P
             /\ MyManagersDict'[k].Q = WorkerCalls[k].Q
        /\ \A j \in ListOfKeys \ {k} : ~EntryChanges(j)

(***************************************************************************)
(* C19: discipline of the shared dictionary. Between the read of an entry  *)
(* (lines 25, 29) and the assignment of the changed copy (lines 27, 33)    *)
(* the entry in the dictionary is the one that was read: no other call     *)
(* has written it; every change of an entry is such an assignment by the   *)
(* call of its key, so that no element of a sequence is lost; and the      *)
(* sequence under every key is a beginning of the Lucas sequence of the P  *)
(* and Q of the call of that key.                                          *)
(***************************************************************************)
C19_SharedDictDiscipline ==
    /\ [](\A k \in ListOfKeys :
            /\ ~Begun(k) => MyManagersDict[k] = NewEntry
            /\ Begun(k) =>
                 IsLucasSequence(MyManagersDict[k].Sequence, WorkerCalls[k].P, WorkerCalls[k].Q)
            /\ WorkerCalls[k].pc = "write" =>
                 /\ ~MyManagersDict[k].CompFinished
                 /\ Len(WorkerCalls[k].TemporaryDict.Sequence)
                        = Len(MyManagersDict[k].Sequence) + 1
                 /\ SubSeq(WorkerCalls[k].TemporaryDict.Sequence, 1,
                           Len(MyManagersDict[k].Sequence)) = MyManagersDict[k].Sequence
                 /\ IsLucasSequence(WorkerCalls[k].TemporaryDict.Sequence,
                                    WorkerCalls[k].P, WorkerCalls[k].Q)
            /\ WorkerCalls[k].pc = "mark" =>
                 /\ ~MyManagersDict[k].CompFinished
                 /\ WorkerCalls[k].TemporaryDict.Sequence = MyManagersDict[k].Sequence
            /\ WorkerCalls[k].pc = "returned" =>
                 /\ MyManagersDict[k].CompFinished
                 /\ MyManagersDict[k].Sequence[Len(MyManagersDict[k].Sequence)] >= SequenceLimit)
    /\ [][\A k \in ListOfKeys : C19_EntryStep(k)]_vars

\* Two calls are between read and assignment at once, each with elements of
\* its own written before, and the sequences differ.
C19_Witness ==
    /\ NumberOfTasks = 2
    /\ WorkerCalls[1].pc = "write"
    /\ WorkerCalls[2].pc = "write"
    /\ Len(MyManagersDict[1].Sequence) = 4
    /\ Len(MyManagersDict[2].Sequence) = 4
    /\ MyManagersDict[1].Sequence # MyManagersDict[2].Sequence

\* The results that the first n workers have put and their feeder threads
\* have not sent yet.
RECURSIVE Buffered(_)
Buffered(n) == IF n = 0 THEN <<>> ELSE Buffered(n - 1) \o OutputQueue.buffer[n]

\* The results in OutputQueue: in the buffers of the workers and in the pipe.
InOutputQueue == Buffered(NumberOfWorkers) \o OutputQueue.pipe

(***************************************************************************)
(* C20: conservation in the shared-queue run without faults. Every id is   *)
(* pushed once, and every pushed id is at every moment in exactly one      *)
(* place, once: in InputQueue, with a worker that has popped it and is     *)
(* computing, or as a result in OutputQueue or in the list of the drain;   *)
(* so the numbers of these add up to the number of ids pushed.  No id has  *)
(* more than one result put, and a result is put only for an id that was   *)
(* popped.                                                                 *)
(***************************************************************************)
C20_Conservation ==
    LET held == InOutputQueue \o Output
        inInput == {ItemID(Queued[k]) : k \in DOMAIN Queued}
        inCall == {ItemID(MyProcesses[w].TupleOfArguments) :
                       w \in {v \in Workers : MyProcesses[v].pc = "call"}}
        inHeld == {ResultID(held[k]) : k \in DOMAIN held}
    IN \* every id is pushed once, and is in one place, once
       /\ Cardinality({ItemID(pushed[k]) : k \in DOMAIN pushed}) = Len(pushed)
       /\ Cardinality(inInput) = Len(Queued)
       /\ Cardinality(inCall) = Cardinality({w \in Workers : MyProcesses[w].pc = "call"})
       /\ Cardinality(inHeld) = Len(held)
       /\ inInput \cap inCall = {}
       /\ inInput \cap inHeld = {}
       /\ inCall \cap inHeld = {}
       /\ inInput \cup inCall \cup inHeld = {ItemID(pushed[k]) : k \in DOMAIN pushed}
       \* the results put are those in OutputQueue and in Output, of popped ids
       /\ Len(putOrder) = Len(held)
       /\ {ResultID(putOrder[k]) : k \in DOMAIN putOrder} = inHeld
       /\ \A t \in inHeld : popCount[t] >= 1

\* The drain has taken the result of one id while the result of the other
\* id is in the pipe of OutputQueue.
C20_Witness ==
    /\ NumberOfTasks = 2
    /\ Len(Output) = 1
    /\ Len(OutputQueue.pipe) = 1
    /\ ResultID(Output[1]) # ResultID(OutputQueue.pipe[1])

(***************************************************************************)
(* Vocabulary of case 4                                                    *)
(***************************************************************************)

\* The job and the input value in the id of a result ((JobID, InputValue), Sum).
JobOf(result) == result[1][1]
TaskOf(result) == result[1][2]

\* The input values of a list of results, in order.
TasksOf(List) == [k \in DOMAIN List |-> TaskOf(List[k])]

\* The elements of a list.
Elements(List) == {List[k] : k \in DOMAIN List}

(***************************************************************************)
(* C21 (as amended): the list sorted on line 100 holds the drained results *)
(* ordered by the job that put them and, for one job, by the input value;  *)
(* each input value occurs in it once.  The list is the same for every     *)
(* order of arrival, and its sequence of ids depends on which job has      *)
(* popped which input value.                                               *)
(***************************************************************************)
C21_SortedByJobThenValue ==
    /\ [](DrainReturned =>
            /\ Len(Output) = NumberOfTasks
            /\ \A k \in 1..(Len(Output) - 1) :
                 \/ JobOf(Output[k]) < JobOf(Output[k + 1])
                 \/ /\ JobOf(Output[k]) = JobOf(Output[k + 1])
                    /\ TaskOf(Output[k]) < TaskOf(Output[k + 1])
            /\ {TaskOf(r) : r \in Elements(Output)} = 1..NumberOfTasks
            /\ Elements(Output) = Elements(putOrder))
    /\ [][(mainpc = "drain" /\ mainpc' = "join") =>
            /\ Len(Output') = Len(Output)
            /\ Elements(Output') = Elements(Output)]_vars

\* The sorted list gives the second input value first: job 1 has popped it,
\* and job 2 the first.
C21_Witness ==
    /\ DrainReturned
    /\ NumberOfTasks = 2
    /\ TasksOf(Output) = <<2, 1>>
    /\ JobOf(Output[1]) = 1
    /\ JobOf(Output[2]) = 2

\* C21 as stated: the sorted list gives the ids in the same order in every
\* run, which is the order of the run in which one job pops every input
\* value: the input values ascend.
C21_SortedIDsSameInEveryRun ==
    DrainReturned => TasksOf(Output) = [k \in 1..NumberOfTasks |-> k]

(***************************************************************************)
(* C22: drain precedes join. The main process calls no join before it has  *)
(* taken NumberOfTasks results from OutputQueue, and with this order the   *)
(* run does not deadlock: as long as the main process has not passed the   *)
(* last join, some process can take a step.                                *)
(***************************************************************************)
C22_DrainBeforeJoinNeverDeadlocks ==
    /\ mainpc \in {"join", "done"} => Len(Output) = NumberOfTasks
    /\ mainpc # "done" => ENABLED Next

\* The state in which a run is to end: nothing is left in InputQueue, the
\* main process holds NumberOfTasks results and has joined every worker.
Terminal ==
    /\ mainpc = "done"
    /\ Queued = <<>>
    /\ Len(Output) = NumberOfTasks
    /\ AllExited

(***************************************************************************)
(* C23: termination of the shared-queue run. A run in which every process  *)
(* that can take a step takes one in the end stops only in the terminal    *)
(* state; so a state in which no process can take a step is the terminal   *)
(* state.                                                                  *)
(***************************************************************************)
C23_StopsOnlyInTerminalState ==
    (~ENABLED Next) => Terminal

\* The items of the input queue, the oldest first: those in the pipe, then
\* those that the feeder thread of the main process has not sent yet.
InInputQueue == InputQueue.pipe \o InputQueue.buffer[Main]

\* A step in which an InputQueue.get(block=False) returns an item.
Pops == \E t \in DOMAIN popCount : popCount'[t] # popCount[t]

\* What a step of the nested run does to the input queue and to the set of
\* outer workers once the main process has filled the queue.
C24_QueueStep ==
    mainpc # "fill" =>
        /\ pushed' = pushed
        /\ \/ InInputQueue' = InInputQueue
           \/ InInputQueue # <<>> /\ InInputQueue' = Tail(InInputQueue)
        /\ Pops <=> Len(InInputQueue') = Len(InInputQueue) - 1
        /\ Pops => \E w \in Workers :
                      /\ ListOfProcesses[w].pc = "poll"
                      /\ ListOfProcesses'[w].pc = "pool"
                      /\ ListOfProcesses'[w].NumbersToAdd = Head(InputQueue.pipe)
                      /\ InputQueue'.pipe = Tail(InputQueue.pipe)
        /\ DOMAIN ListOfProcesses' = DOMAIN ListOfProcesses
        /\ \A w \in Workers :
             /\ ListOfProcesses[w].pc # "created" => ListOfProcesses'[w].pc # "created"
             /\ (ListOfProcesses[w].pc = "created" /\ ListOfProcesses'[w].pc # "created") =>
                    (mainpc = "start" /\ i = w)

(***************************************************************************)
(* C24: the input queue only shrinks after the start. Once the main        *)
(* process has filled the input queue, no process puts anything into it:   *)
(* no outer worker has an item of it in its buffer, and a step leaves the  *)
(* queue as it is or takes its oldest item away, which happens in the      *)
(* steps in which a get(block=False) of an outer worker returns an item    *)
(* and in no other; the outer workers are those the main process has       *)
(* created, each started by the loop of lines 89-90 and by no worker.      *)
(* The workers of the inner pools take no step on the input queue.         *)
(***************************************************************************)
C24_InputQueueOnlyShrinks ==
    /\ [](/\ \A w \in Workers : InputQueue.buffer[w] = <<>>
          /\ mainpc # "fill" => Len(pushed) = NumberOfTasks
          /\ DOMAIN ListOfProcesses = 1..NumberOfProcessWorkers)
    /\ [][C24_QueueStep]_vars
    /\ [][(innerCalls' # innerCalls) => (InputQueue' = InputQueue /\ ~Pops)]_vars

\* One input value has been popped and the other has not, while the inner
\* pool of a worker has run a task.
C24_Witness ==
    /\ mainpc = "drain"
    /\ Len(pushed) = 2
    /\ Len(InInputQueue) = 1
    /\ innerCalls >= 1
    /\ \E w \in Workers : HasPool(w)

\* A step of the started outer worker w, of its feeder thread or of a worker
\* of its inner pool.
OuterWorkerSteps(w) ==
    \/ ListOfProcesses[w].pc # "created" /\ ListOfProcesses'[w] # ListOfProcesses[w]
    \/ OutputQueue'.buffer[w] # OutputQueue.buffer[w]

\* The state of the main process: its position, its locals, and the items it
\* has put that its feeder thread has not sent yet.
SubmitterState ==
    <<mainpc, i, Output, ResultArrayOrdered, NumberOfTasks, NumberOfSubtasksInOneTask,
      pushed, InputQueue.buffer[Main], OutputQueue.buffer[Main]>>

(***************************************************************************)
(* C25: only the two queues are shared. A step of an outer worker, of its  *)
(* feeder thread or of a worker of its inner pool changes nothing but the  *)
(* pipe and the reader lock of the input queue, the worker's own buffer    *)
(* and the pipe of the output queue, and the locals of this worker (the    *)
(* popped value, the weight, the handles and the collected sums, its       *)
(* pool): the locals and the buffers of every other worker and the state   *)
(* of the main process stay as they are.                                   *)
(***************************************************************************)
C25_OnlyQueuesShared ==
    [][\A w \in Workers :
          OuterWorkerSteps(w) =>
              /\ \A v \in Workers \ {w} :
                   /\ ListOfProcesses'[v] = ListOfProcesses[v]
                   /\ OutputQueue'.buffer[v] = OutputQueue.buffer[v]
                   /\ InputQueue'.buffer[v] = InputQueue.buffer[v]
              /\ SubmitterState' = SubmitterState
              /\ OutputQueue'.rlock = OutputQueue.rlock
              /\ Len(OutputQueue'.pipe) >= Len(OutputQueue.pipe)]_vars

\* Both workers hold an item, each with a weight and with sums of its own.
C25_Witness ==
    /\ NumberOfWorkers = 2
    /\ ListOfProcesses[1].pc = "collect"
    /\ ListOfProcesses[2].pc = "collect"
    /\ ListOfProcesses[1].RandomWeight # ListOfProcesses[2].RandomWeight
    /\ Len(ListOfProcesses[1].ListOfSums) # Len(ListOfProcesses[2].ListOfSums)

\* Worker w has been started, and it is running.
Started(w) == MyProcesses[w].pc # "created"
IsRunning(w) == MyProcesses[w].pc \notin {"created", "exited"}

\* What a step does to the set of workers: a worker is started by the loop
\* of lines 99-100 in its turn and in no other way, a started worker is not
\* started again, and a worker that has exited stays so.
C26_WorkerSetStep ==
    /\ NumberOfWorkers' = NumberOfWorkers
    /\ DOMAIN MyProcesses' = DOMAIN MyProcesses
    /\ \A w \in Workers :
         /\ (~Started(w) /\ Started(w)') =>
                (mainpc = "start" /\ i = w /\ MyProcesses'[w].pc = "get")
         /\ Started(w) => Started(w)'
         /\ MyProcesses[w].pc = "exited" => MyProcesses'[w].pc = "exited"

(***************************************************************************)
(* C26 (as amended): exactly NumberOfWorkers workers are created, and each *)
(* is started exactly once, by the loop of lines 99-100, before the drain  *)
(* begins; at every moment at most NumberOfWorkers workers are running; a  *)
(* worker that has terminated is not started again and no further worker   *)
(* is created.  A worker that has not been started yet is started although *)
(* another worker has terminated already: the loop goes on while the       *)
(* workers started so far are running.                                     *)
(***************************************************************************)
C26_FixedWorkerCount ==
    /\ [](/\ DOMAIN MyProcesses = 1..NumberOfWorkers
          /\ Cardinality({w \in Workers : IsRunning(w)}) <= NumberOfWorkers
          /\ mainpc = "fill" => \A w \in Workers : ~Started(w)
          /\ mainpc = "start" => \A w \in Workers : Started(w) <=> w < i
          /\ mainpc \in {"drain", "join", "done"} => \A w \in Workers : Started(w))
    /\ [][C26_WorkerSetStep]_vars

\* The first worker has terminated and the second is about to be started.
C26_Witness ==
    /\ NumberOfWorkers = 2
    /\ mainpc = "start"
    /\ i = 2
    /\ MyProcesses[1].pc = "exited"
    /\ ~Started(2)
    /\ ENABLED MainStart

\* C26 as stated: no worker is started after one has terminated; as every
\* worker is started before the drain begins, no worker has terminated while
\* another is still to be started.
C26_NoStartAfterTermination ==
    (\E v \in Workers : MyProcesses[v].pc = "exited") => \A w \in Workers : Started(w)

\* The number of results that job w has put.
ResultsBy(w) == Cardinality({k \in DOMAIN putOrder : JobOf(putOrder[k]) = w})

(***************************************************************************)
(* C27: no fairness between workers. Nothing makes a worker wait for the   *)
(* others: whenever a job is at its get and no process holds the reader    *)
(* lock, it takes the lock, and whenever it holds the lock and an input    *)
(* value is in the pipe, it pops this value, whatever the numbers of       *)
(* values it and the other jobs have popped before; a run in which one job *)
(* pops every input value and the other jobs none ends like every other    *)
(* run, with NumberOfTasks results returned by the drain.                  *)
(***************************************************************************)
C27_NoFairnessBetweenWorkers ==
    /\ \A w \in Workers :
         /\ (Jobs[w].pc = "get" /\ CanAcquire(InputQueue)) =>
                ENABLED (RepeatAcquire(w) /\ Jobs'[w].pc = "poll")
         /\ (Jobs[w].pc = "poll" /\ Poll(InputQueue)) =>
                ENABLED (RepeatPoll(w) /\ Jobs'[w].pc = "sum")
    /\ DrainReturned =>
         /\ Len(Output) = NumberOfTasks
         /\ \A k \in DOMAIN Output : JobOf(Output[k]) \in Workers

\* The run of two jobs over two input values has ended: job 1 has popped
\* both and put both results, job 2 has put nothing and has exited.
C27_Witness ==
    /\ mainpc = "done"
    /\ NumberOfWorkers = 2
    /\ NumberOfTasks = 2
    /\ \A t \in TaskIDs : popCount[t] = 1
    /\ ResultsBy(1) = 2
    /\ ResultsBy(2) = 0
    /\ Jobs[2].pc = "exited"
    /\ \A k \in DOMAIN Output : JobOf(Output[k]) = 1

\* The input numbers of an array of pairs (input number, output number).
InputNumbers(Array) == [k \in DOMAIN Array |-> Array[k][1]]

C29_EmptyStep(w) ==
    (Queued = <<>> /\ MyProcesses[w].pc \in {"get", "poll", "break"}) =>
        /\ MyProcesses'[w].pc \in {"get", "poll", "break", "exited"}
        /\ MyProcesses[w].pc = "poll" /\ MyProcesses'[w].pc # "poll" =>
               MyProcesses'[w].pc = "break"
        /\ MyProcesses'[w].TupleOfArguments = <<>>
        /\ Len(OutputQueue'.buffer[w]) <= Len(OutputQueue.buffer[w])
        /\ Queued' = <<>>

Computing == {w \in Workers : MyProcesses[w].pc = "call"}
PoppedIDs == {t \in TaskIDs : popCount[t] >= 1}
ReportedIDs == {ResultID(putOrder[k]) : k \in DOMAIN putOrder}

(***************************************************************************)
(* C30: one item in flight per worker. The items popped and not reported   *)
(* yet are those the computing workers hold, one each: a worker that is at *)
(* its pop holds nothing, since it has put the result of the item it had   *)
(* popped; so the number of items in flight is the number of computing     *)
(* workers and never exceeds NumberOfWorkers.                              *)
(***************************************************************************)
C30_OneItemInFlight ==
    /\ PoppedIDs \ ReportedIDs = {ItemID(MyProcesses[w].TupleOfArguments) : w \in Computing}
    /\ ReportedIDs \subseteq PoppedIDs
    /\ Cardinality(PoppedIDs \ ReportedIDs) = Cardinality(Computing)
    /\ Cardinality(PoppedIDs \ ReportedIDs) <= NumberOfWorkers
    /\ \A t \in TaskIDs : popCount[t] <= 1
    /\ \A w \in Workers \ Computing : MyProcesses[w].TupleOfArguments = <<>>

\* The only worker has put the result of its first item and holds its
\* second.
C30_Witness ==
    /\ NumberOfWorkers = 1
    /\ NumberOfTasks = 2
    /\ Len(putOrder) = 1
    /\ Computing = {1}
    /\ PoppedIDs = {0, 1}

\* line 37: ListOfKeys = list(range(1,21)) has this many keys.
NumberOfKeys == 20

\* lines 23-34, for a call that no other call disturbs: the sequence that
\* the loop leaves in the entry, begun with the given sequence of an entry
\* that is not finished.
RECURSIVE WorkerSequence(_, _, _)
WorkerSequence(Sequence, P, Q) ==
    LET Extended == Append(Sequence, ComputeNextElementOfLucasSequence(Sequence, P, Q))
    IN  IF Extended[Len(Extended)] >= SequenceLimit
          THEN Extended
          ELSE WorkerSequence(Extended, P, Q)

\* The last element of the sequence has reached the limit and no earlier
\* element has.
EndsAtLimit(Sequence) ==
    /\ Sequence[Len(Sequence)] >= SequenceLimit
    /\ \A n \in 1..(Len(Sequence) - 1) : Sequence[n] < SequenceLimit

\* The loop of lines 23-34 ends for every key of line 37 and every P and Q
\* that lines 21-22 can draw for it, and ends as the claim says.
WorkerEndsForEveryKey ==
    \A Key \in 1..NumberOfKeys : \A P \in 1..Key, Q \in (0 - Key)..(0 - 1) :
        /\ EndsAtLimit(WorkerSequence(NewEntry.Sequence, P, Q))
        /\ IsLucasSequence(WorkerSequence(NewEntry.Sequence, P, Q), P, Q)

\* How far the sequence of key k in the dictionary is from its end: the sum
\* of its last two elements grows with every element appended.
ElementsToGo(k) ==
    LET Sequence == MyManagersDict[k].Sequence
    IN  IF Sequence[Len(Sequence)] >= SequenceLimit
          THEN 0
          ELSE 2 * SequenceLimit - (Sequence[Len(Sequence)] + Sequence[Len(Sequence) - 1])

\* The place of the call in one pass of the loop of lines 23-34.
PlaceInLoop(pc) ==
    CASE pc = "none" -> 8
      [] pc = "queued" -> 7
      [] pc = "check" -> 6
      [] pc = "test" -> 5
      [] pc = "read" -> 4
      [] pc = "write" -> 3
      [] pc = "reread" -> 2
      [] pc = "mark" -> 1
      [] pc = "returned" -> 0

\* A bound of the number of steps that the call for key k has left.
StepsToGo(k) == 4 * ElementsToGo(k) + PlaceInLoop(WorkerCalls[k].pc)

\* The step that the call for key k takes next.
WorkerStep(k) ==
    \/ WorkerTest(k)
    \/ WorkerRead(k)
    \/ WorkerWrite(k)
    \/ WorkerCheck(k)
    \/ WorkerReread(k)
    \/ WorkerMark(k)

\* A step of the call for key k brings it nearer to its end, and changes no
\* entry of another key.
C31_WorkerStep(k) ==
    WorkerCalls'[k] # WorkerCalls[k] =>
        /\ StepsToGo(k)' < StepsToGo(k)
        /\ \A j \in ListOfKeys \ {k} : MyManagersDict'[j] = MyManagersDict[j]

(***************************************************************************)
(* C31: the call Worker(Dict, k) ends and leaves its entry finished. A     *)
(* call that a process of the pool runs can always take its next step, and *)
(* every step of it lowers a natural number, so that it returns after      *)
(* finitely many steps; P is in 1..k and Q in -k..-1; when the call has    *)
(* returned the entry of k has CompFinished = True, holds the P and Q of   *)
(* the call, the last element of its sequence is at least 1000 and every   *)
(* earlier element is below 1000; after MyPool.join() has returned this    *)
(* holds for every key; a step of the call for k changes no entry of       *)
(* another key. The loop run alone ends in this way for every key 1..20    *)
(* with every P and Q, and the calls of the pool end with its sequence.    *)
(***************************************************************************)
C31_WorkerTerminates ==
    /\ [](/\ WorkerEndsForEveryKey
          /\ \A k \in ListOfKeys :
               /\ StepsToGo(k) \in Nat
               /\ k \in Running =>
                    /\ ENABLED WorkerStep(k)
                    /\ WorkerCalls[k].P \in 1..k
                    /\ WorkerCalls[k].Q \in (0 - k)..(0 - 1)
               /\ WorkerCalls[k].pc = "returned" =>
                    /\ MyManagersDict[k].CompFinished = TRUE
                    /\ DOMAIN MyManagersDict[k] = {"Sequence", "CompFinished", "P", "Q"}
                    /\ MyManagersDict[k].P = WorkerCalls[k].P
                    /\ MyManagersDict[k].Q = WorkerCalls[k].Q
                    /\ EndsAtLimit(MyManagersDict[k].Sequence)
                    /\ MyManagersDict[k].Sequence
                           = WorkerSequence(NewEntry.Sequence, WorkerCalls[k].P, WorkerCalls[k].Q)
          /\ mainpc = "done" =>
               \A k \in ListOfKeys :
                   /\ WorkerCalls[k].pc = "returned"
                   /\ MyManagersDict[k].CompFinished = TRUE)
    /\ [][\A k \in ListOfKeys : C31_WorkerStep(k)]_vars

\* MyPool.join() has returned; the call for key 1 has ended with the
\* sequence of P = 1 and Q = -1, the longest there is, and the call for key
\* 2 with P = 2 and Q = -2.
C31_Witness ==
    /\ mainpc = "done"
    /\ NumberOfTasks = 2
    /\ MyManagersDict[1].CompFinished
    /\ Len(MyManagersDict[1].Sequence) = 18
    /\ MyManagersDict[1].Sequence[18] = 1597
    /\ MyManagersDict[1].Sequence[17] = 987
    /\ MyManagersDict[2].CompFinished
    /\ MyManagersDict[2].P = 2
    /\ MyManagersDict[2].Q = 0 - 2
    /\ MyManagersDict[2].Sequence[Len(MyManagersDict[2].Sequence)] >= SequenceLimit

(***************************************************************************)
(* Serial (MultiprocessingDemonstrationBenchmarking.py, lines 64-72): the  *)
(* list comprehension of line 68 calls CPUHeavyFunction for i = 0, 1, ...  *)
(* in the calling process; NumberOfWorkers is not used.                    *)
(***************************************************************************)
InitSerial ==
    /\ NumberOfWorkers \in 1..MaxWorkers
    /\ NumberOfTasks \in 0..MaxTasks
    /\ WeightOfComputation \in 1..MaxWeight
    /\ mainpc = "serial"
    /\ i = 0
    /\ Output = <<>>
    /\ calls = [t \in TaskIDs |-> 0]
    /\ InputQueue = NewQueue
    /\ OutputQueue = NewQueue
    /\ MyProcesses = <<>>
    /\ pushed = <<>>
    /\ popCount = <<>>
    /\ putOrder = <<>>
    /\ arrived = <<>>
    /\ MyPool = NoPool
    /\ Results = <<>>
    /\ submitted = <<>>
    /\ finished = <<>>
    /\ NestedUnused
    /\ ReduceUnused
    /\ DictUnused
    /\ JobsUnused

\* line 68: CPUHeavyFunction(WeightOfComputation, i) for the next i
SerialCall ==
    /\ mainpc = "serial"
    /\ i < NumberOfTasks
    /\ \E NumbersInside \in 0..WeightOfComputation :
         Output' = Append(Output, CPUHeavyFunction(WeightOfComputation, i, NumbersInside))
    /\ calls' = [calls EXCEPT ![i] = @ + 1]
    /\ i' = i + 1
    /\ UNCHANGED <<params, mainpc, queueVars, poolVars, elseVars>>

\* lines 68 -> 72: the list is complete, Serial returns
SerialReturn ==
    /\ mainpc = "serial"
    /\ i = NumberOfTasks
    /\ mainpc' = "done"
    /\ UNCHANGED <<params, i, Output, calls, queueVars, poolVars, elseVars>>

NextSerial ==
    \/ SerialCall
    \/ SerialReturn

SpecSerial == InitSerial /\ [][NextSerial]_vars

\* CPUHeavyFunction has been called once for every id 0..NumberOfTasks-1.
CalledOnceForEveryID == \A t \in TaskIDs : calls[t] = 1

\* The ids of the results in Output.
ProducedIDs == {ResultID(Output[k]) : k \in DOMAIN Output}

(***************************************************************************)
(* C32: UseProcess does the work that Serial and UsePool do. In the run of *)
(* UseProcess CPUHeavyFunction is called for ids of 0..NumberOfTasks-1     *)
(* only and for none twice, and when the run has stopped it has been       *)
(* called once for every id of 0..NumberOfTasks-1 and Output holds one     *)
(* result for every such id, in some order.                                *)
(***************************************************************************)
C32_SameWorkInEveryStrategy ==
    /\ DOMAIN calls = TaskIDs
    /\ \A t \in TaskIDs : calls[t] <= 1
    /\ (~ENABLED Next) =>
           /\ CalledOnceForEveryID
           /\ Len(Output) = NumberOfTasks
           /\ ProducedIDs = TaskIDs

====
